---- MODULE Spec2Model ----
(***************************************************************************)
(* Model of the Torito Protocol backend (Express + Mongoose + ethers).     *)
(*                                                                         *)
(* Two groups of routes are modelled, each as its own specification over   *)
(* the same variables:                                                     *)
(*   Spec       - the Loan document store and the routes that write a      *)
(*                loan's status: routes/partner.js (status push, repayment *)
(*                confirmation, transfer notification) and the user's      *)
(*                cancel of routes/loans.js;                               *)
(*   SpecWallet - routes/wallet.js (deposit, withdraw, loan request) over  *)
(*                the ToritoWallet contract reached through                *)
(*                utils/blockchain.js.                                     *)
(* The two groups share no state: wallet.js never touches the Loan model   *)
(* and the partner and cancel routes never call the contract.              *)
(*                                                                         *)
(* Every handler is an async function: it runs synchronously up to an      *)
(* await and other requests run while it waits.  A request is therefore a  *)
(* small process held in a slot, with one action per stretch of code       *)
(* between two awaits that touches shared state.                           *)
(***************************************************************************)
EXTENDS Integers, Sequences, FiniteSets, TLC

VARIABLES
    loans,      \* the Loan collection: loanId -> document
    lreq,       \* requests in flight on the partner and cancel routes
    lresp,      \* the last response sent by those routes
    accounts,   \* ToritoWallet contract: address -> UserAccount
    usdt,       \* USDT token: address -> balance
    rates,      \* the ExchangeRate collection, oldest first
    wreq,       \* requests in flight on the wallet routes
    wresp,      \* the last response sent by the wallet and exchange routes
    feed        \* the rate feed's surroundings: the clock (Date.now()), the
                \* start-up timer, the cron schedule and the external API

vars == <<loans, lreq, lresp, accounts, usdt, rates, wreq, wresp, feed>>

loanVars   == <<loans, lreq, lresp>>
walletVars == <<accounts, usdt, rates, wreq, wresp, feed>>

(***************************************************************************)
(* Users, credentials and request slots.                                   *)
(***************************************************************************)
Users == {"u1", "u2"}

\* process.env.PARTNER_API_KEY and the X-API-Key headers a caller may send
\* ("none": the header is absent).
PartnerApiKey == "secret"
ApiKeys == {"none", "wrong", "secret"}

\* Two requests can be in flight at once on each group of routes.
Slots == {"r1", "r2"}

(***************************************************************************)
(* The Loan collection (models/Loan.js).                                   *)
(***************************************************************************)
\* loanSchema.status enum
StatusEnum == {"pending", "approved", "funded", "repaid", "liquidated", "cancelled"}

\* The document of the store, owned by u1 (the documents are those the
\* database already holds: see CreateLoanSave for what creation does); "L9"
\* is an id no document has and "" an empty loanId.
StoredLoans == {"L1"}
LoanIdInputs == StoredLoans \cup {"L9", ""}

\* A document as the schema defaults leave it after creation: its owner, its
\* status, its repayment record and its amounts (collateral.amount in aUSDT,
\* loan.amountBOB in hundredths; here a loan of 200 BOB on 40000), which
\* the debt summary adds up.  The partner references (orderId, transferId,
\* bankDetails) and the createdAt/updatedAt/confirmedAt timestamps are left
\* out: no route reads them back to decide anything.
NewLoan(owner) ==
    [ owner          |-> owner,
      status         |-> "pending",
      collateral     |-> 40000,
      amountBOB      |-> 20000,
      repaidAmount   |-> 0,
      repaidAt       |-> "none",
      confirmed      |-> FALSE,
      confirmationId |-> "none" ]

\* The paths of a document a handler assigns.
Fields == {"status", "repaidAmount", "repaidAt", "confirmed", "confirmationId"}

\* Mongoose marks a path modified only when the assigned value differs from
\* the loaded one.
Dirty(old, new) == {f \in Fields : new[f] # old[f]}

\* What a slot keeps of the in-memory document: the modified paths only.
Pending(new, dirty) ==
    [f \in DOMAIN new |-> IF f \in dirty THEN new[f] ELSE NewLoan("none")[f]]

\* document.save(): the modified paths are validated against the schema
\* (status against its enum) and, when valid, are $set on the stored document;
\* the other paths of the stored document are left as they are.
SaveIsValid(upd, dirty) == "status" \in dirty => upd.status \in StatusEnum

SaveDocument(cur, upd, dirty) ==
    [f \in DOMAIN cur |-> IF f \in dirty THEN upd[f] ELSE cur[f]]

IdleReq ==
    [ pc |-> "idle", op |-> "none", key |-> "none", user |-> "none",
      loanId |-> "none", target |-> "none", from |-> "none",
      upd |-> NewLoan("none"), dirty |-> {} ]

\* A response, with what the request was: the route, the credential or user it
\* came with, the status it asked for and the status its lookup found.
NoResp ==
    [ op |-> "none", key |-> "none", user |-> "none",
      target |-> "none", from |-> "none", code |-> 0 ]

\* A new request takes the lowest free slot (the slots are interchangeable).
CanStart(req, s) ==
    /\ req[s].pc = "idle"
    /\ \A t \in Slots : (t # s /\ req[t].pc = "idle") => s = "r1"

Resp(op, key, user, target, from, code) ==
    [ op |-> op, key |-> key, user |-> user,
      target |-> target, from |-> from, code |-> code ]

\* The request held by a slot between Loan.findOne and loan.save.
Saving(op, key, user, loanId, target, doc, new) ==
    [ pc |-> "save", op |-> op, key |-> key, user |-> user, loanId |-> loanId,
      target |-> target, from |-> doc.status,
      upd |-> Pending(new, Dirty(doc, new)), dirty |-> Dirty(doc, new) ]

(***************************************************************************)
(* routes/partner.js                                                       *)
(***************************************************************************)
PartnerOps == {"status", "repayment", "transfer"}

\* A credential check that only looks for the header.
VerifyPartnerAuthPresentOnly(apiKey) ==
    ~ (apiKey = "none")

\* verifyPartnerAuth: next() is called only for a present, matching key.
VerifyPartnerAuth(apiKey) ==
    ~ (apiKey = "none" \/ apiKey # PartnerApiKey)

\* Request bodies.  `valid` stands for the validators on the fields the model
\* does not carry (transferId, transferAmount, bankDetails.*).
PushStatuses == {"approved", "funded", "rejected", "repaid"}
RepaymentBodies ==
    { [amount |-> 50, conf |-> "c1", date |-> "none"],
      [amount |-> 70, conf |-> "c2", date |-> "d1"],
      [amount |-> -1, conf |-> "c1", date |-> "none"],
      [amount |-> 50, conf |-> "",   date |-> "none"] }

\* ['funded', 'approved'].includes(loan.status)
IsRepayable(status) == status \in {"funded", "approved"}

\* loan.save() of a request in flight, and the handler's response: 200, or 500
\* from the catch block when save() throws the validation error.
SaveAndRespond(s) ==
    LET r   == lreq[s]
        ok  == SaveIsValid(r.upd, r.dirty)
    IN  /\ loans' = IF ok
                    THEN [loans EXCEPT ![r.loanId] = SaveDocument(@, r.upd, r.dirty)]
                    ELSE loans
        /\ lresp' = Resp(r.op, r.key, r.user, r.target, r.from,
                         IF ok THEN 200 ELSE 500)
        /\ lreq' = [lreq EXCEPT ![s] = IdleReq]

\* A response sent before any document is saved.
Reject(op, key, user, target, from, code) ==
    /\ lresp' = Resp(op, key, user, target, from, code)
    /\ UNCHANGED <<loans, lreq>>

\* POST /api/partner/loan/status, up to the call of loan.save().
PartnerLoanStatus(s, key, loanId, status) ==
    /\ CanStart(lreq, s)
    /\ IF ~ VerifyPartnerAuth(key)
         THEN Reject("status", key, "partner", "none", "none", 401)
       ELSE IF loanId = "" \/ status \notin {"approved", "funded", "rejected"}
         THEN Reject("status", key, "partner", "none", "none", 400)
       ELSE IF loanId \notin DOMAIN loans
         THEN Reject("status", key, "partner", status, "none", 404)
       ELSE LET doc == loans[loanId]
                new == [doc EXCEPT !.status = status]
            IN  /\ lreq' = [lreq EXCEPT ![s] =
                              Saving("status", key, "partner", loanId, status, doc, new)]
                /\ UNCHANGED <<loans, lresp>>
    /\ UNCHANGED walletVars

PartnerLoanStatusSave(s) ==
    /\ lreq[s].pc = "save" /\ lreq[s].op = "status"
    /\ SaveAndRespond(s)
    /\ UNCHANGED walletVars

\* POST /api/partner/loan/repayment, up to the call of loan.save().
PartnerLoanRepayment(s, key, loanId, body) ==
    /\ CanStart(lreq, s)
    /\ IF ~ VerifyPartnerAuth(key)
         THEN Reject("repayment", key, "partner", "none", "none", 401)
       ELSE IF loanId = "" \/ body.amount < 0 \/ body.conf = ""
         THEN Reject("repayment", key, "partner", "none", "none", 400)
       ELSE IF loanId \notin DOMAIN loans
         THEN Reject("repayment", key, "partner", "repaid", "none", 404)
       ELSE IF ~ IsRepayable(loans[loanId].status)
         THEN Reject("repayment", key, "partner", "repaid",
                     loans[loanId].status, 400)
       ELSE LET doc == loans[loanId]
                new == [doc EXCEPT !.status = "repaid",
                                   !.repaidAt = IF body.date # "none"
                                                THEN body.date ELSE "now",
                                   !.repaidAmount = body.amount,
                                   !.confirmed = TRUE,
                                   !.confirmationId = body.conf]
            IN  /\ lreq' = [lreq EXCEPT ![s] =
                              Saving("repayment", key, "partner", loanId, "repaid", doc, new)]
                /\ UNCHANGED <<loans, lresp>>
    /\ UNCHANGED walletVars

PartnerLoanRepaymentSave(s) ==
    /\ lreq[s].pc = "save" /\ lreq[s].op = "repayment"
    /\ SaveAndRespond(s)
    /\ UNCHANGED walletVars

\* POST /api/partner/loan/transfer, up to the call of loan.save().
PartnerLoanTransfer(s, key, loanId, valid) ==
    /\ CanStart(lreq, s)
    /\ IF ~ VerifyPartnerAuth(key)
         THEN Reject("transfer", key, "partner", "none", "none", 401)
       ELSE IF loanId = "" \/ ~ valid
         THEN Reject("transfer", key, "partner", "none", "none", 400)
       ELSE IF loanId \notin DOMAIN loans
         THEN Reject("transfer", key, "partner", "funded", "none", 404)
       ELSE LET doc == loans[loanId]
                new == [doc EXCEPT !.status = "funded"]
            IN  /\ lreq' = [lreq EXCEPT ![s] =
                              Saving("transfer", key, "partner", loanId, "funded", doc, new)]
                /\ UNCHANGED <<loans, lresp>>
    /\ UNCHANGED walletVars

PartnerLoanTransferSave(s) ==
    /\ lreq[s].pc = "save" /\ lreq[s].op = "transfer"
    /\ SaveAndRespond(s)
    /\ UNCHANGED walletVars

(***************************************************************************)
(* routes/loans.js: PUT /api/loans/:loanId/cancel                          *)
(***************************************************************************)
\* Loan.findOne({ loanId, userId: req.user._id, status: 'pending' })
FindPendingLoanOf(loanId, user) ==
    /\ loanId \in DOMAIN loans
    /\ loans[loanId].owner = user
    /\ loans[loanId].status = "pending"

CancelLoan(s, user, loanId) ==
    /\ CanStart(lreq, s)
    /\ loanId # ""
    /\ IF ~ FindPendingLoanOf(loanId, user)
         THEN Reject("cancel", "none", user, "cancelled",
                     IF loanId \in DOMAIN loans THEN loans[loanId].status ELSE "none",
                     404)
       ELSE LET doc == loans[loanId]
                new == [doc EXCEPT !.status = "cancelled"]
            IN  /\ lreq' = [lreq EXCEPT ![s] =
                              Saving("cancel", "none", user, loanId, "cancelled", doc, new)]
                /\ UNCHANGED <<loans, lresp>>
    /\ UNCHANGED walletVars

CancelLoanSave(s) ==
    /\ lreq[s].pc = "save" /\ lreq[s].op = "cancel"
    /\ SaveAndRespond(s)
    /\ UNCHANGED walletVars

(***************************************************************************)
(* Amounts.  The code keeps USDT at 6 decimals, BOB at 2 and the rate at 8 *)
(* (utils/blockchain.js); the model keeps USDT in whole units, BOB in      *)
(* hundredths and the rate in ten-thousandths, so that the products stay   *)
(* small.                                                                  *)
(***************************************************************************)
RateScale == 10000

\* isFloat({ min: 0.01 }) on usdtToBobRate, in ten-thousandths.
MinRate == 100

\* "The contract uses a 50% LTV ratio".
LtvPercent == 50

(***************************************************************************)
(* models/ExchangeRate.js                                                  *)
(***************************************************************************)
\* The feed's surroundings.  clock is what Date.now() returns, counted in
\* ticks; startup is the setTimeout of the initial fetch; cron is the hourly
\* schedule; source is whether the external API currently answers with a
\* rate; lastFailure is the time of the last 'Scheduled rate update failed'
\* line of the log (0: none).
Sources == {"down", "up"}

\* A server that has been running for a while.
StartedFeed ==
    [ clock |-> 2, startup |-> "done", cron |-> "running", source |-> "up",
      lastFailure |-> 0 ]

\* A server that has just started.
BootFeed(source) ==
    [ clock |-> 1, startup |-> "pending", cron |-> "running", source |-> source,
      lastFailure |-> 0 ]

\* getLatestRate: the active record of the pair with the greatest createdAt,
\* or the null record when there is none.
NoRate == [fromCurrency |-> "none", toCurrency |-> "none", rate |-> 0,
           source |-> "none", isActive |-> FALSE, createdAt |-> 0]

MatchingRates(from, to) ==
    {i \in DOMAIN rates : /\ rates[i].fromCurrency = from
                          /\ rates[i].toCurrency = to
                          /\ rates[i].isActive}

getLatestRate(from, to) ==
    IF MatchingRates(from, to) = {}
    THEN NoRate
    ELSE rates[CHOOSE i \in MatchingRates(from, to) :
                 \A j \in MatchingRates(from, to) :
                    rates[j].createdAt <= rates[i].createdAt]

\* findOne(...).sort({ createdAt: -1 }) where documents can share a
\* createdAt: the sort does not order the documents that tie, and any of
\* them may be the one returned.
LatestIn(rs, from, to) ==
    LET matching == {i \in DOMAIN rs : /\ rs[i].fromCurrency = from
                                       /\ rs[i].toCurrency = to
                                       /\ rs[i].isActive}
    IN  {i \in matching : \A j \in matching : rs[j].createdAt <= rs[i].createdAt}

LatestIndexes(from, to) == LatestIn(rates, from, to)

FindLatest(from, to) ==
    IF MatchingRates(from, to) = {}
    THEN {NoRate}
    ELSE {rates[i] : i \in LatestIndexes(from, to)}

(***************************************************************************)
(* The ToritoWallet contract, as utils/blockchain.js reaches it.  Every    *)
(* transaction is signed by the service's own key (this.wallet), so the    *)
(* contract sees the service address as msg.sender whatever user the       *)
(* request came from.                                                      *)
(***************************************************************************)
Signer == "svc"
Addresses == {"svc", "a2"}

\* req.user.walletAddress: u1 registered the address the service signs with,
\* u2 an address of their own.
WalletAddress == [u \in Users |-> IF u = "u1" THEN "svc" ELSE "a2"]

\* calculateMaxBorrowable: balance x rate x ltv, rounded down, in BOB
\* hundredths (the percent and the BOB scale cancel).
calculateMaxBorrowable(usdtBalance, rate) ==
    (usdtBalance * rate * LtvPercent) \div RateScale

\* calculateRequiredCollateral: amount / (rate x ltv), rounded up, in USDT.
calculateRequiredCollateral(bobAmount, rate) ==
    (bobAmount * RateScale + rate * LtvPercent - 1) \div (rate * LtvPercent)

\* deposit(amount) by msg.sender: pulls the tokens from the sender.
ContractDepositOk(sender, amount) == usdt[sender] >= amount

\* withdraw(amount, usdtToBobRate) by msg.sender, with the contract's own
\* collateral check against the rate it is handed.
ContractWithdrawOk(sender, amount, rate) ==
    /\ accounts[sender].usdtBalance >= amount
    /\ accounts[sender].bobDebt > 0 =>
          accounts[sender].usdtBalance - amount
             >= calculateRequiredCollateral(accounts[sender].bobDebt, rate)

\* requestLoan(bobAmount, usdtToBobRate) by msg.sender.
ContractLoanOk(sender, bobAmount, rate) ==
    /\ accounts[sender].isActive
    /\ accounts[sender].usdtBalance >= calculateRequiredCollateral(bobAmount, rate)
    /\ accounts[sender].bobDebt + bobAmount
          <= calculateMaxBorrowable(accounts[sender].usdtBalance, rate)

(***************************************************************************)
(* routes/wallet.js                                                        *)
(***************************************************************************)
\* Request bodies: amounts (0 fails isFloat({ min: 0.01 })), rates in
\* ten-thousandths (25 is the documented 0.0025) and what getTransactionStatus
\* finds for a supplied transactionHash ("none": no hash in the body; "error":
\* the receipt lookup throws).
DepositAmounts  == {0, 400}
WithdrawAmounts == {0, 400}
LoanAmounts     == {0, 400}
RateInputs      == {25, 100, 200}
HashStates      == {"none", "confirmed", "pending", "failed", "error"}

\* USDT the service address holds at the start.
InitialUsdt == 800

IdleWalletReq ==
    [ pc |-> "idle", op |-> "none", user |-> "none", amount |-> 0, rate |-> 0,
      balance |-> 0, debt |-> 0 ]

\* The `details` of an error response: the withdrawal route reports the
\* balance that would remain and the collateral the debt requires.
NoDetails == [ remainingAfterWithdrawal |-> 0, requiredCollateral |-> 0 ]

NoWalletResp ==
    [ op |-> "none", user |-> "none", code |-> 0, error |-> "none",
      details |-> NoDetails ]

WalletResp(op, user, code, error) ==
    [ op |-> op, user |-> user, code |-> code, error |-> error,
      details |-> NoDetails ]

\* A response sent before any transaction is submitted.
WalletReject(op, user, code, error) ==
    /\ wresp' = WalletResp(op, user, code, error)
    /\ UNCHANGED <<accounts, usdt, rates, wreq, feed>>

\* The 400 of the withdrawal route's collateral check, with its details.
WalletRejectWithDetails(op, user, code, error, details) ==
    /\ wresp' = [WalletResp(op, user, code, error) EXCEPT !.details = details]
    /\ UNCHANGED <<accounts, usdt, rates, wreq, feed>>

\* The request held by a slot once its checks have passed: the body and the
\* account data the checks were made against.
Admitted(op, user, amount, rate, acct) ==
    [ pc |-> "mutate", op |-> op, user |-> user, amount |-> amount, rate |-> rate,
      balance |-> acct.usdtBalance, debt |-> acct.bobDebt ]

\* getToritoUserAccount(walletAddress)
getToritoUserAccount(user) == accounts[WalletAddress[user]]

\* A confirmation check that lets a transaction without receipt through.
TransactionFailedOnly(hash) == hash = "failed"

\* if (transactionHash) { txStatus.status !== 'confirmed' }
TransactionNotConfirmed(hash) == hash # "none" /\ hash # "confirmed"

\* POST /api/wallet/deposit, up to the call of depositToToritoContract.
Deposit(s, user, amount, hash) ==
    /\ CanStart(wreq, s)
    /\ IF amount <= 0
         THEN WalletReject("deposit", user, 400, "Validation")
       ELSE IF hash = "error"
         THEN WalletReject("deposit", user, 500, "ContractCallFailed")
       ELSE IF TransactionNotConfirmed(hash)
         THEN WalletReject("deposit", user, 400, "TransactionNotConfirmed")
       ELSE IF usdt[WalletAddress[user]] < amount
         THEN WalletReject("deposit", user, 400, "InsufficientBalance")
       ELSE /\ wreq' = [wreq EXCEPT ![s] =
                          Admitted("deposit", user, amount, 0,
                                   [usdtBalance |-> 0, bobDebt |-> 0])]
            /\ UNCHANGED <<accounts, usdt, rates, wresp, feed>>
    /\ UNCHANGED loanVars

\* depositToToritoContract: approve and deposit, signed by the service key.
\* `fails` is a transaction that fails for a reason outside the contract's
\* own checks (gas, the node).
DepositMutate(s, fails) ==
    /\ wreq[s].pc = "mutate" /\ wreq[s].op = "deposit"
    /\ IF fails \/ ~ ContractDepositOk(Signer, wreq[s].amount)
         THEN /\ wresp' = WalletResp("deposit", wreq[s].user, 500,
                                     IF fails THEN "ContractCallFailed"
                                     ELSE "InsufficientBalance")
              /\ wreq' = [wreq EXCEPT ![s] = IdleWalletReq]
              /\ UNCHANGED <<accounts, usdt>>
         ELSE /\ accounts' = [accounts EXCEPT
                                ![Signer].usdtBalance = @ + wreq[s].amount,
                                ![Signer].isActive = TRUE]
              /\ usdt' = [usdt EXCEPT ![Signer] = @ - wreq[s].amount]
              /\ wreq' = [wreq EXCEPT ![s].pc = "reread"]
              /\ UNCHANGED wresp
    /\ UNCHANGED <<rates, feed>>
    /\ UNCHANGED loanVars

\* The balance as it is before the withdrawal.
remainingBalanceBeforeWithdrawal(userAccount, amount) == userAccount.usdtBalance

\* remainingBalance of the withdrawal route.
remainingBalance(userAccount, amount) == userAccount.usdtBalance - amount

\* A collateral check that never refuses.
LeavesEnoughCollateralAlways(userAccount, amount, usdtToBobRate) == FALSE

\* if (bobDebt > 0) { ... remainingBalance < requiredCollateral }
LeavesInsufficientCollateral(userAccount, amount, usdtToBobRate) ==
    /\ userAccount.bobDebt > 0
    /\ remainingBalance(userAccount, amount)
          < calculateRequiredCollateral(userAccount.bobDebt, usdtToBobRate)

\* POST /api/wallet/withdraw, up to the call of withdrawFromToritoContract.
Withdraw(s, user, amount, usdtToBobRate) ==
    /\ CanStart(wreq, s)
    /\ LET userAccount == getToritoUserAccount(user)
       IN  IF amount <= 0 \/ usdtToBobRate < MinRate
             THEN WalletReject("withdraw", user, 400, "Validation")
           ELSE IF userAccount.usdtBalance < amount
             THEN WalletReject("withdraw", user, 400, "InsufficientBalance")
           ELSE IF LeavesInsufficientCollateral(userAccount, amount, usdtToBobRate)
             THEN WalletRejectWithDetails("withdraw", user, 400,
                    "InsufficientCollateralAfterWithdrawal",
                    [ remainingAfterWithdrawal |->
                         remainingBalance(userAccount, amount),
                      requiredCollateral |->
                         calculateRequiredCollateral(userAccount.bobDebt,
                                                     usdtToBobRate) ])
           ELSE /\ wreq' = [wreq EXCEPT ![s] =
                              Admitted("withdraw", user, amount, usdtToBobRate,
                                       userAccount)]
                /\ UNCHANGED <<accounts, usdt, rates, wresp, feed>>
    /\ UNCHANGED loanVars

\* withdrawFromToritoContract, signed by the service key.
WithdrawMutate(s, fails) ==
    /\ wreq[s].pc = "mutate" /\ wreq[s].op = "withdraw"
    /\ IF fails \/ ~ ContractWithdrawOk(Signer, wreq[s].amount, wreq[s].rate)
         THEN /\ wresp' = WalletResp("withdraw", wreq[s].user, 500,
                    IF fails THEN "ContractCallFailed"
                    ELSE IF accounts[Signer].usdtBalance < wreq[s].amount
                         THEN "InsufficientBalance"
                         ELSE "InsufficientCollateralAfterWithdrawal")
              /\ wreq' = [wreq EXCEPT ![s] = IdleWalletReq]
              /\ UNCHANGED <<accounts, usdt>>
         ELSE /\ accounts' = [accounts EXCEPT
                                ![Signer].usdtBalance = @ - wreq[s].amount]
              /\ usdt' = [usdt EXCEPT ![Signer] = @ + wreq[s].amount]
              /\ wreq' = [wreq EXCEPT ![s].pc = "reread"]
              /\ UNCHANGED wresp
    /\ UNCHANGED <<rates, feed>>
    /\ UNCHANGED loanVars

\* A total that counts one hundredth more than is owed.
newTotalDebtAndOneMore(userAccount, bobAmount) ==
    userAccount.bobDebt + bobAmount + 1

\* A capacity check that forgets the debt the account already carries.
newTotalDebtOfRequestOnly(userAccount, bobAmount) == bobAmount

\* const newTotalDebt = parseFloat(userAccount.bobDebt) + parseFloat(bobAmount)
newTotalDebt(userAccount, bobAmount) == userAccount.bobDebt + bobAmount

\* GET /api/wallet/borrowing-capacity:
\* Math.max(0, parseFloat(maxBorrowable) - parseFloat(userAccount.bobDebt))
availableToBorrow(userAccount, usdtToBobRate) ==
    LET maxBorrowable == calculateMaxBorrowable(userAccount.usdtBalance,
                                                usdtToBobRate)
    IN  IF maxBorrowable - userAccount.bobDebt > 0
        THEN maxBorrowable - userAccount.bobDebt ELSE 0

\* POST /api/wallet/loan/request, up to the call of requestLoanFromTorito.
LoanRequest(s, user, bobAmount, usdtToBobRate) ==
    /\ CanStart(wreq, s)
    /\ LET userAccount == getToritoUserAccount(user)
       IN  IF bobAmount <= 0 \/ usdtToBobRate < MinRate
             THEN WalletReject("loan", user, 400, "Validation")
           ELSE IF ~ userAccount.isActive
             THEN WalletReject("loan", user, 400, "AccountNotActive")
           ELSE IF userAccount.usdtBalance
                     < calculateRequiredCollateral(bobAmount, usdtToBobRate)
             THEN WalletReject("loan", user, 400, "InsufficientCollateral")
           ELSE IF newTotalDebt(userAccount, bobAmount)
                     > calculateMaxBorrowable(userAccount.usdtBalance, usdtToBobRate)
             THEN WalletReject("loan", user, 400, "ExceedsBorrowingCapacity")
           ELSE /\ wreq' = [wreq EXCEPT ![s] =
                              Admitted("loan", user, bobAmount, usdtToBobRate,
                                       userAccount)]
                /\ UNCHANGED <<accounts, usdt, rates, wresp, feed>>
    /\ UNCHANGED loanVars

\* requestLoanFromTorito, signed by the service key.
LoanMutate(s, fails) ==
    /\ wreq[s].pc = "mutate" /\ wreq[s].op = "loan"
    /\ IF fails \/ ~ ContractLoanOk(Signer, wreq[s].amount, wreq[s].rate)
         THEN /\ wresp' = WalletResp("loan", wreq[s].user, 500,
                    IF fails THEN "ContractCallFailed"
                    ELSE IF ~ accounts[Signer].isActive THEN "AccountNotActive"
                    ELSE IF accounts[Signer].usdtBalance
                              < calculateRequiredCollateral(wreq[s].amount, wreq[s].rate)
                         THEN "InsufficientCollateral"
                         ELSE "ExceedsBorrowingCapacity")
              /\ wreq' = [wreq EXCEPT ![s] = IdleWalletReq]
              /\ UNCHANGED <<accounts, usdt>>
         ELSE /\ accounts' = [accounts EXCEPT
                                ![Signer].bobDebt = @ + wreq[s].amount]
              /\ wreq' = [wreq EXCEPT ![s].pc = "reread"]
              /\ UNCHANGED <<usdt, wresp>>
    /\ UNCHANGED <<rates, feed>>
    /\ UNCHANGED loanVars

\* The second getToritoUserAccount of a handler and its 200 response.
RereadAndRespond(s) ==
    /\ wreq[s].pc = "reread"
    /\ wresp' = WalletResp(wreq[s].op, wreq[s].user, 200, "none")
    /\ wreq' = [wreq EXCEPT ![s] = IdleWalletReq]
    /\ UNCHANGED <<accounts, usdt, rates, feed>>
    /\ UNCHANGED loanVars

(***************************************************************************)
(* The specifications.                                                     *)
(***************************************************************************)
Init ==
    /\ loans = [l \in StoredLoans |-> NewLoan("u1")]
    /\ lreq = [s \in Slots |-> IdleReq]
    /\ lresp = NoResp
    /\ accounts = [a \in Addresses |->
                     IF a = Signer
                     THEN [usdtBalance |-> 0, bobDebt |-> 0, isActive |-> FALSE]
                     ELSE [usdtBalance |-> 400, bobDebt |-> 0, isActive |-> TRUE]]
    /\ usdt = [a \in Addresses |-> IF a = Signer THEN InitialUsdt ELSE 400]
    /\ rates = << [fromCurrency |-> "USDT", toCurrency |-> "BOB", rate |-> 200,
                   source |-> "api", isActive |-> TRUE, createdAt |-> 1],
                  [fromCurrency |-> "USDT", toCurrency |-> "BOB", rate |-> 100,
                   source |-> "api", isActive |-> TRUE, createdAt |-> 2] >>
    /\ wreq = [s \in Slots |-> IdleWalletReq]
    /\ wresp = NoWalletResp
    /\ feed = StartedFeed

Next ==
    \E s \in Slots :
       \/ \E key \in ApiKeys, l \in LoanIdInputs, st \in PushStatuses :
             PartnerLoanStatus(s, key, l, st)
       \/ PartnerLoanStatusSave(s)
       \/ \E key \in ApiKeys, l \in LoanIdInputs, b \in RepaymentBodies :
             PartnerLoanRepayment(s, key, l, b)
       \/ PartnerLoanRepaymentSave(s)
       \/ \E key \in ApiKeys, l \in LoanIdInputs, v \in BOOLEAN :
             PartnerLoanTransfer(s, key, l, v)
       \/ PartnerLoanTransferSave(s)
       \/ \E u \in Users, l \in LoanIdInputs : CancelLoan(s, u, l)
       \/ CancelLoanSave(s)

Spec == Init /\ [][Next]_vars

NextWallet ==
    \E s \in Slots :
       \/ \E u \in Users, a \in DepositAmounts, h \in HashStates : Deposit(s, u, a, h)
       \/ \E f \in BOOLEAN : DepositMutate(s, f)
       \/ \E u \in Users, a \in WithdrawAmounts, r \in RateInputs : Withdraw(s, u, a, r)
       \/ \E f \in BOOLEAN : WithdrawMutate(s, f)
       \/ \E u \in Users, a \in LoanAmounts, r \in RateInputs : LoanRequest(s, u, a, r)
       \/ \E f \in BOOLEAN : LoanMutate(s, f)
       \/ RereadAndRespond(s)

SpecWallet == Init /\ [][NextWallet]_vars

(***************************************************************************)
(* Loan lifecycle (specification Spec).                                    *)
(***************************************************************************)
\* The transition table of the Loan status.
AllowedTransitions ==
    { <<"pending", "approved">>, <<"pending", "funded">>, <<"pending", "rejected">>,
      <<"pending", "cancelled">>, <<"approved", "repaid">>, <<"funded", "repaid">>,
      <<"approved", "liquidated">>, <<"funded", "liquidated">> }

TerminalStatuses == {"repaid", "liquidated", "cancelled", "rejected"}

StatusWriters == {"status", "repayment", "transfer", "cancel"}

\* The slot whose request is answered by this step's loan.save().
Completes(s) == lreq[s].pc = "save" /\ lreq'[s].pc = "idle"

\* The slot that takes up a request of route `op` in this step.
TakesUp(s, op) == lreq[s].pc = "idle" /\ lreq'[s].pc = "save" /\ lreq'[s].op = op

\* C1: a status-writing request (partner status push, transfer notification,
\* repayment confirmation, user cancel) whose pair (status found, status asked
\* for) is not in the transition table is rejected: it is never answered 200.
C1_IllegalTransitionRejected ==
    ( /\ lresp.op \in StatusWriters
      /\ lresp.from # "none"
      /\ <<lresp.from, lresp.target>> \notin AllowedTransitions )
    => lresp.code # 200

\* C2: a partner status push of approved, funded or rejected on a loan found
\* pending succeeds (is answered 200).
C2_AllowedPushSucceeds ==
    ( /\ lresp.op = "status"
      /\ lresp.from = "pending"
      /\ lresp.target \in {"approved", "funded", "rejected"} )
    => lresp.code = 200

\* C3: terminal states are absorbing: no step changes the status of a loan
\* that is repaid, liquidated, cancelled or rejected, and no step removes a
\* loan from the collection.
C3_TerminalAbsorbing ==
    [][ /\ DOMAIN loans' = DOMAIN loans
        /\ \A l \in DOMAIN loans :
              loans[l].status \in TerminalStatuses
                 => loans'[l].status = loans[l].status ]_vars

\* The guard of the cancel route, as the handler evaluates it: a cancel is
\* taken up only for a loan that its lookup finds pending and owned by the
\* caller, and a cancel whose lookup finds anything else is answered 404 and
\* writes nothing.
CancelGuardedAtLookup ==
    [][ /\ \A s \in Slots :
              TakesUp(s, "cancel")
                 => /\ loans[lreq'[s].loanId].status = "pending"
                    /\ loans[lreq'[s].loanId].owner = lreq'[s].user
        /\ (lresp'.op = "cancel" /\ lresp'.code # 200)
              => /\ lresp'.code = 404
                 /\ lresp' # lresp => loans' = loans
        /\ (lresp'.op = "cancel" /\ lresp'.from \notin {"pending"})
              => lresp'.code = 404
        /\ (lresp'.op = "cancel" /\ \A l \in DOMAIN loans : loans[l].owner # lresp'.user)
              => lresp'.code = 404 ]_vars

\* C4: a cancel changes a loan to cancelled only if the loan is pending when
\* the cancel writes and the caller is its owner; a cancel that writes to a
\* loan in any other status, or of another owner, fails and leaves the
\* collection as it was, and so does every cancel that is not answered 200.
C4_CancelOnlyPendingByOwner ==
    [][ /\ \A s \in Slots :
              (Completes(s) /\ lreq[s].op = "cancel")
                 => IF /\ loans[lreq[s].loanId].status = "pending"
                       /\ loans[lreq[s].loanId].owner = lreq[s].user
                    THEN /\ loans' = [loans EXCEPT ![lreq[s].loanId].status = "cancelled"]
                         /\ lresp'.code = 200
                    ELSE /\ lresp'.code # 200
                         /\ loans' = loans
        /\ (lresp'.op = "cancel" /\ lresp'.code # 200 /\ lresp' # lresp)
              => loans' = loans
        /\ \A l \in DOMAIN loans :
              (loans'[l].status = "cancelled" /\ loans[l].status # "cancelled")
                 => loans[l].status = "pending" ]_vars

\* The guard of the repayment route, as the handler evaluates it: a
\* confirmation is taken up only for a loan that its lookup finds approved or
\* funded, and one whose lookup finds any other status is answered 400 and
\* writes nothing.
RepaymentGuardedAtLookup ==
    [][ /\ \A s \in Slots :
              TakesUp(s, "repayment")
                 => loans[lreq'[s].loanId].status \in {"approved", "funded"}
        /\ (lresp'.op = "repayment" /\ lresp'.code # 200 /\ lresp' # lresp)
              => loans' = loans
        /\ (lresp'.op = "repayment" /\ lresp'.from \notin {"none", "approved", "funded"})
              => lresp'.code = 400 ]_vars

\* C5: a repayment confirmation stores repaid and the repayment record
\* (amount, time, confirmation id) only if the loan is approved or funded when
\* the confirmation writes; a confirmation that writes to a loan in any other
\* status fails and changes neither the status nor the repayment record.
C5_RepaymentOnlyWhenRepayable ==
    [][ \A s \in Slots :
           (Completes(s) /\ lreq[s].op = "repayment")
              => IF loans[lreq[s].loanId].status \in {"approved", "funded"}
                 THEN /\ lresp'.code = 200
                      /\ loans'[lreq[s].loanId].status = "repaid"
                      /\ loans'[lreq[s].loanId].confirmed
                      /\ loans'[lreq[s].loanId].repaidAt # "none"
                      /\ loans'[lreq[s].loanId].confirmationId # "none"
                 ELSE /\ lresp'.code # 200
                      /\ loans' = loans ]_vars

\* C6: a partner request with a missing or mismatched key is answered 401 and
\* leaves the collection as it was, and only a request that carried the
\* matching key is ever taken up or saves a document.
C6_PartnerAuthRequired ==
    [][ /\ \A s \in Slots :
              lreq'[s].op \in PartnerOps => lreq'[s].key = PartnerApiKey
        /\ (lresp'.op \in PartnerOps /\ lresp'.key # PartnerApiKey)
              => lresp'.code = 401
        /\ (lresp' # lresp /\ lresp'.code = 401) => loans' = loans
        /\ loans' # loans
              => \E s \in Slots :
                    /\ Completes(s)
                    /\ lreq[s].op \in PartnerOps => lreq[s].key = PartnerApiKey ]_vars

\* Witness of C6: a request with a mismatched key was answered 401 while the
\* loan, already moved by an authorised push, stayed as it was.
C6_Witness ==
    /\ lresp.op \in PartnerOps /\ lresp.key = "wrong" /\ lresp.code = 401
    /\ loans["L1"].status = "approved"

(***************************************************************************)
(* Wallet routes (specification SpecWallet).                               *)
(***************************************************************************)
\* The rate the Rate Feed holds as latest for the pair.
LatestRate == getLatestRate("USDT", "BOB").rate

\* The admission rule of a request, against a balance and a debt.
Admissible(op, amount, rate, balance, debt) ==
    IF op = "loan"
    THEN /\ balance >= calculateRequiredCollateral(amount, rate)
         /\ debt + amount <= calculateMaxBorrowable(balance, rate)
    ELSE /\ amount <= balance
         /\ debt > 0 => balance - amount >= calculateRequiredCollateral(debt, rate)

\* The request of slot t is still admissible once the request of slot s has
\* taken effect on the balance and the debt both were admitted against.
AdmissibleAfter(s, t) ==
    LET balance == IF wreq[s].op = "withdraw"
                   THEN wreq[s].balance - wreq[s].amount ELSE wreq[s].balance
        debt    == IF wreq[s].op = "loan"
                   THEN wreq[s].debt + wreq[s].amount ELSE wreq[s].debt
    IN  Admissible(wreq[t].op, wreq[t].amount, wreq[t].rate, balance, debt)

\* Two requests of one user, admitted against the same balance and debt, that
\* are not admissible together in either order.
Conflicting(s, t) ==
    /\ s # t
    /\ wreq[s].user = wreq[t].user
    /\ wreq[s].op \in {"withdraw", "loan"} /\ wreq[t].op \in {"withdraw", "loan"}
    /\ wreq[s].balance = wreq[t].balance /\ wreq[s].debt = wreq[t].debt
    /\ ~ AdmissibleAfter(s, t)
    /\ ~ AdmissibleAfter(t, s)

\* C7: two concurrent loan requests of one user, each admissible against the
\* balance and debt both read but not both together, never both succeed (never
\* both have their contract loan mined).
C7_NeverBothLoansSucceed ==
    \A s, t \in Slots :
       ~ ( /\ Conflicting(s, t)
           /\ wreq[s].op = "loan" /\ wreq[t].op = "loan"
           /\ wreq[s].pc = "reread" /\ wreq[t].pc = "reread" )

\* C8: two concurrent requests of one user of which at least one is a
\* withdrawal, each admissible against the snapshot both read but not both
\* together, never both pass the admission check.
C8_AdmissionSerializedPerUser ==
    \A s, t \in Slots :
       ~ ( /\ Conflicting(s, t)
           /\ wreq[s].op = "withdraw"
           /\ wreq[s].pc = "mutate" /\ wreq[t].pc = "mutate" )

\* C9: every account satisfies debt <= maxBorrowable(balance, latest rate) in
\* every state.
C9_DebtWithinBorrowingLimit ==
    \A a \in Addresses :
       accounts[a].bobDebt
          <= calculateMaxBorrowable(accounts[a].usdtBalance, LatestRate)

\* C10: the rate a withdrawal or a loan request is admitted with, and hands to
\* the contract, is the Rate Feed's latest active rate of the pair.
C10_AdmissionUsesLatestRate ==
    \A s \in Slots :
       (wreq[s].pc \in {"mutate", "reread"} /\ wreq[s].op \in {"withdraw", "loan"})
          => wreq[s].rate = LatestRate

\* A withdrawal whose body passed the route's validators.
ValidWithdrawal(amount, rate) == amount > 0 /\ rate >= MinRate

\* C11: a withdrawal of amount W that passed input validation is admitted
\* (goes on to the contract withdrawal) exactly when W <= balance and
\* (debt = 0 or requiredCollateral(debt, rate) <= balance - W), balance and
\* debt being the account the handler read; when it is not admitted nothing
\* is handed to the contract and the accounts are as they were; and the
\* contract withdrawal is only ever invoked for a request admitted so.
C11_WithdrawalAdmission ==
    [][ /\ \A s \in Slots, u \in Users, W \in WithdrawAmounts, r \in RateInputs :
              (ValidWithdrawal(W, r) /\ Withdraw(s, u, W, r))
                 => LET balance == accounts[WalletAddress[u]].usdtBalance
                        debt    == accounts[WalletAddress[u]].bobDebt
                        admit   == /\ W <= balance
                                   /\ \/ debt = 0
                                      \/ calculateRequiredCollateral(debt, r)
                                            <= balance - W
                    IN  /\ admit <=> wreq'[s].pc = "mutate"
                        /\ ~ admit => /\ wreq' = wreq
                                      /\ wresp'.code = 400
                        /\ accounts' = accounts /\ usdt' = usdt
        /\ \A s \in Slots :
              (wreq'[s].op = "withdraw" /\ wreq'[s].pc = "mutate")
                 => /\ wreq'[s].amount <= wreq'[s].balance
                    /\ \/ wreq'[s].debt = 0
                       \/ calculateRequiredCollateral(wreq'[s].debt, wreq'[s].rate)
                             <= wreq'[s].balance - wreq'[s].amount
        /\ (accounts' # accounts \/ usdt' # usdt)
              => \E s \in Slots : wreq[s].pc = "mutate" ]_vars

\* Witness of C11: a withdrawal by a user in debt was refused for the
\* collateral it would leave, and another is past admission with no debt.
C11_Witness ==
    /\ wresp.op = "withdraw" /\ wresp.code = 400
    /\ wresp.error = "InsufficientCollateralAfterWithdrawal"
    /\ \E s \in Slots : wreq[s].op = "withdraw" /\ wreq[s].pc = "mutate"

\* A loan request whose body passed the route's validators.
ValidLoanRequest(bobAmount, rate) == bobAmount > 0 /\ rate >= MinRate

\* C13: a loan request that passed input validation is rejected with
\* AccountNotActive if the account it read is inactive, otherwise with
\* InsufficientCollateral if balance < requiredCollateral(amount, rate),
\* otherwise with ExceedsBorrowingCapacity if debt + amount >
\* maxBorrowable(balance, rate); it goes on to the contract loan only when none
\* of the three holds, and a rejection leaves every account as it was.
C13_LoanRequestRejections ==
    [][ /\ \A s \in Slots, u \in Users, A \in LoanAmounts, r \in RateInputs :
              (ValidLoanRequest(A, r) /\ LoanRequest(s, u, A, r))
                 => LET acct     == accounts[WalletAddress[u]]
                        inactive == ~ acct.isActive
                        short    == acct.usdtBalance
                                       < calculateRequiredCollateral(A, r)
                        exceeds  == acct.bobDebt + A
                                       > calculateMaxBorrowable(acct.usdtBalance, r)
                        rejected == wresp' # wresp /\ wresp'.code = 400
                                       /\ wreq' = wreq
                    IN  /\ inactive
                              => rejected /\ wresp'.error = "AccountNotActive"
                        /\ (~ inactive /\ short)
                              => rejected /\ wresp'.error = "InsufficientCollateral"
                        /\ (~ inactive /\ ~ short /\ exceeds)
                              => rejected /\ wresp'.error = "ExceedsBorrowingCapacity"
                        /\ wreq'[s].pc = "mutate"
                              <=> (~ inactive /\ ~ short /\ ~ exceeds)
                        /\ accounts' = accounts /\ usdt' = usdt
        /\ \A s \in Slots :
              (wreq[s].op = "loan" /\ wreq[s].pc = "mutate"
                 /\ accounts' # accounts)
                 => /\ wreq[s].balance
                         >= calculateRequiredCollateral(wreq[s].amount, wreq[s].rate)
                    /\ wreq[s].debt + wreq[s].amount
                         <= calculateMaxBorrowable(wreq[s].balance, wreq[s].rate) ]_vars

\* Witness of C13: a loan request of a user already in debt was rejected
\* for exceeding the borrowing capacity, the debt unchanged.
C13_Witness ==
    /\ wresp.op = "loan" /\ wresp.code = 400
    /\ wresp.error = "ExceedsBorrowingCapacity"
    /\ accounts[WalletAddress[wresp.user]].bobDebt > 0

\* C16: a deposit that passed input validation and whose transaction hash has
\* no receipt yet, or a failed one, is answered TransactionNotConfirmed; one
\* whose amount exceeds the wallet's USDT balance is answered
\* InsufficientBalance; in both cases the request never reaches the contract
\* deposit and accounts and token balances are as they were.
C16_DepositRejections ==
    [][ \A s \in Slots, u \in Users, a \in DepositAmounts, h \in HashStates :
           (a > 0 /\ Deposit(s, u, a, h))
              => LET unconfirmed == h \in {"pending", "failed"}
                     poor        == usdt[WalletAddress[u]] < a
                     rejected    == wreq' = wreq /\ wresp'.code = 400
                                       /\ accounts' = accounts /\ usdt' = usdt
                 IN  /\ unconfirmed
                           => rejected /\ wresp'.error = "TransactionNotConfirmed"
                     /\ (h \in {"none", "confirmed"} /\ poor)
                           => rejected /\ wresp'.error = "InsufficientBalance"
                     /\ wreq'[s].pc = "mutate"
                           => (~ unconfirmed /\ ~ poor) ]_vars

\* Witness of C16: a deposit was refused for its unconfirmed transaction
\* while the wallet held the tokens to make it.
C16_Witness ==
    /\ wresp.op = "deposit" /\ wresp.code = 400
    /\ wresp.error = "TransactionNotConfirmed"
    /\ usdt[WalletAddress[wresp.user]] >= 400

\* C15: a withdrawal or loan request with a positive amount and a positive
\* exchange rate (0.0025, the documented example, among them) is never
\* answered as a validation failure.
C15_PositiveRateAccepted ==
    [][ \A s \in Slots, u \in Users, r \in RateInputs :
           /\ \A a \in WithdrawAmounts :
                 (a > 0 /\ r > 0 /\ Withdraw(s, u, a, r) /\ wresp' # wresp)
                    => wresp'.error # "Validation"
           /\ \A a \in LoanAmounts :
                 (a > 0 /\ r > 0 /\ LoanRequest(s, u, a, r) /\ wresp' # wresp)
                    => wresp'.error # "Validation" ]_vars

(***************************************************************************)
(* The documented examples (specification SpecScenario): an account with   *)
(* 1000 USDT and no debt behind the service key, and an account with       *)
(* 80399 USDT and a debt of 100.00 BOB behind the second address.          *)
(***************************************************************************)
ScenarioWithdrawAmounts == {400}
ScenarioLoanAmounts     == {100, 130}
ScenarioRates           == {25, 100}

InitScenario ==
    /\ loans = [l \in StoredLoans |-> NewLoan("u1")]
    /\ lreq = [s \in Slots |-> IdleReq]
    /\ lresp = NoResp
    /\ accounts = [a \in Addresses |->
                     IF a = Signer
                     THEN [usdtBalance |-> 1000, bobDebt |-> 0, isActive |-> TRUE]
                     ELSE [usdtBalance |-> 80399, bobDebt |-> 10000,
                           isActive |-> TRUE]]
    /\ usdt = [a \in Addresses |-> 0]
    /\ rates = << [fromCurrency |-> "USDT", toCurrency |-> "BOB", rate |-> 200,
                   source |-> "api", isActive |-> TRUE, createdAt |-> 1],
                  [fromCurrency |-> "USDT", toCurrency |-> "BOB", rate |-> 100,
                   source |-> "api", isActive |-> TRUE, createdAt |-> 2] >>
    /\ wreq = [s \in Slots |-> IdleWalletReq]
    /\ wresp = NoWalletResp
    /\ feed = StartedFeed

NextScenario ==
    \E s \in Slots :
       \/ \E u \in Users, a \in ScenarioWithdrawAmounts, r \in ScenarioRates :
             Withdraw(s, u, a, r)
       \/ \E f \in BOOLEAN : WithdrawMutate(s, f)
       \/ \E u \in Users, a \in ScenarioLoanAmounts, r \in ScenarioRates :
             LoanRequest(s, u, a, r)
       \/ \E f \in BOOLEAN : LoanMutate(s, f)
       \/ RereadAndRespond(s)

SpecScenario == InitScenario /\ [][NextScenario]_vars

\* The debt and balance of the two documented examples.
DebtExample(userAccount) ==
    userAccount.usdtBalance = 80399 /\ userAccount.bobDebt = 10000

NoDebtExample(userAccount) ==
    userAccount.usdtBalance = 1000 /\ userAccount.bobDebt = 0

\* C12: with a debt of 100.00 BOB at rate 0.0025 (80000 USDT required), a
\* withdrawal that would leave 79999 USDT is refused as
\* InsufficientCollateralAfterWithdrawal, and the response carries the
\* shortfall of 1: the required collateral less the balance that would
\* remain.
C12_ShortfallReported ==
    [][ \A s \in Slots :
           (DebtExample(getToritoUserAccount("u2")) /\ Withdraw(s, "u2", 400, 25))
              => /\ wresp'.code = 400
                 /\ wresp'.error = "InsufficientCollateralAfterWithdrawal"
                 /\ wresp'.details.requiredCollateral = 80000
                 /\ wresp'.details.requiredCollateral
                       - wresp'.details.remainingAfterWithdrawal = 1 ]_vars

\* C14: with 1000 USDT, no debt and rate 0.0025 (1.25 BOB borrowable), a
\* loan of 1.30 BOB is refused as ExceedsBorrowingCapacity, and a loan of
\* 1.00 BOB is admitted and leaves 0.25 BOB available to borrow.
C14_CapacityExample ==
    [][ \A s \in Slots :
           /\ (NoDebtExample(getToritoUserAccount("u1"))
                 /\ LoanRequest(s, "u1", 130, 25))
                 => (wresp'.code = 400 /\ wresp'.error = "ExceedsBorrowingCapacity")
           /\ (NoDebtExample(getToritoUserAccount("u1"))
                 /\ LoanRequest(s, "u1", 100, 25))
                 => wreq'[s].pc = "mutate"
           /\ (/\ wreq[s].op = "loan" /\ wreq[s].amount = 100 /\ wreq[s].rate = 25
               /\ wreq[s].balance = 1000 /\ wreq[s].debt = 0
               /\ NoDebtExample(getToritoUserAccount("u1"))
               /\ LoanMutate(s, FALSE))
                 => availableToBorrow(getToritoUserAccount("u1"), 25)' = 25 ]_vars

(***************************************************************************)
(* routes/loans.js, POST /api/loans/request (specification SpecCreate).    *)
(* Amounts of BOB are in hundredths, collateral in whole aUSDT.            *)
(***************************************************************************)
\* parseFloat(process.env.DEFAULT_LTV_RATIO) || 0.75, as a percentage.
DefaultLtvPercent == 75

\* parseFloat(process.env.MIN_LOAN_AMOUNT_BOB) || 100, in hundredths of BOB.
MinLoanBOB == 10000

\* Request bodies (collateralAmount 0 fails isFloat({ min: 0.01 })) and what
\* getAUSDTBalance returns for the caller's address.
CollateralAmounts == {0, 40000}
LoanAmountsBOB    == {5000, 20000, 40000}
AUsdtBalances     == {0, 40000}

\* What the pre('save') hook can produce from Date.now() and Math.random():
\* the id of a stored document included, since nothing ties the five random
\* characters of two documents made in the same millisecond to differ.
GeneratedIds == StoredLoans \cup {"L2"}

\* const maxLoanBOB = collateralAmount * ltvRatio * exchangeRate.rate: the
\* product as it is, not rounded to the BOB hundredth, so it is kept in
\* 1/RateScale of a hundredth.
maxLoanBOB(collateralAmount, rate) ==
    collateralAmount * DefaultLtvPercent * rate

\* A limit check that never refuses.
ExceedsMaxLoanNever(loanAmountBOB, collateralAmount, rate) == FALSE

\* if (loanAmountBOB > maxLoanBOB)
ExceedsMaxLoan(loanAmountBOB, collateralAmount, rate) ==
    loanAmountBOB * RateScale > maxLoanBOB(collateralAmount, rate)

\* The request held by a slot between new Loan({...}) and loan.save(): the
\* document has its owner, the amounts of the request and the schema default
\* status, and no loanId.
Creating(user, collateralAmount, loanAmountBOB) ==
    [ pc |-> "save", op |-> "create", key |-> "none", user |-> user,
      loanId |-> "none", target |-> "pending", from |-> "none",
      upd |-> [NewLoan(user) EXCEPT !.collateral = collateralAmount,
                                    !.amountBOB = loanAmountBOB],
      dirty |-> Fields ]

CreateReject(user, code) ==
    /\ lresp' = Resp("create", "none", user, "pending", "none", code)
    /\ UNCHANGED <<loans, lreq>>

\* POST /api/loans/request, up to loan.save().
CreateLoan(s, user, collateralAmount, loanAmountBOB, bankAccountOk, aUsdtBalance, exchangeRate) ==
    /\ CanStart(lreq, s)
    /\ exchangeRate \in FindLatest("USDT", "BOB")
    /\ IF collateralAmount <= 0 \/ loanAmountBOB < 100 \/ ~ bankAccountOk
         THEN CreateReject(user, 400)
       ELSE IF aUsdtBalance < collateralAmount
         THEN CreateReject(user, 400)
       ELSE IF exchangeRate = NoRate
         THEN CreateReject(user, 503)
       ELSE IF ExceedsMaxLoan(loanAmountBOB, collateralAmount, exchangeRate.rate)
         THEN CreateReject(user, 400)
       ELSE IF loanAmountBOB < MinLoanBOB
         THEN CreateReject(user, 400)
       ELSE /\ lreq' = [lreq EXCEPT ![s] =
                              Creating(user, collateralAmount, loanAmountBOB)]
            /\ UNCHANGED <<loans, lresp>>
    /\ UNCHANGED walletVars

\* loan.save() of the new document.  Mongoose validates the document before
\* it runs the schema's pre('save') hooks, so the required loanId is checked
\* while it is still unset and save() throws; the handler's catch answers
\* 500.  Were the id set, the hook would keep it, and insertOne would fail on
\* the unique index for an id already stored.
CreateLoanSave(s, generated) ==
    /\ lreq[s].pc = "save" /\ lreq[s].op = "create"
    /\ LET id == IF lreq[s].loanId = "none" THEN generated ELSE lreq[s].loanId
       IN  IF lreq[s].loanId = "none" \/ ~ SaveIsValid(lreq[s].upd, lreq[s].dirty)
             THEN /\ lresp' = Resp("create", "none", lreq[s].user, "pending",
                                   "none", 500)
                  /\ UNCHANGED loans
           ELSE IF id \in DOMAIN loans
             THEN /\ lresp' = Resp("create", "none", lreq[s].user, "pending",
                                   "none", 500)
                  /\ UNCHANGED loans
           ELSE /\ loans' = [l \in DOMAIN loans \cup {id} |->
                               IF l = id THEN lreq[s].upd ELSE loans[l]]
                /\ lresp' = Resp("create", "none", lreq[s].user, "pending",
                                 "none", 201)
    /\ lreq' = [lreq EXCEPT ![s] = IdleReq]
    /\ UNCHANGED walletVars

\* The amounts and rate of the wallet requests made next to loan creation.
CreateWalletAmounts == {400}
CreateWalletRates   == {200}

NextCreate ==
    \E s \in Slots :
       \/ \E u \in Users, c \in CollateralAmounts, a \in LoanAmountsBOB,
             ok \in BOOLEAN, bal \in AUsdtBalances :
             \E r \in FindLatest("USDT", "BOB") : CreateLoan(s, u, c, a, ok, bal, r)
       \/ \E g \in GeneratedIds : CreateLoanSave(s, g)
       \/ \E u \in Users, a \in CreateWalletAmounts, r \in CreateWalletRates :
             LoanRequest(s, u, a, r)
       \/ LoanMutate(s, FALSE)
       \/ RereadAndRespond(s)

\* The accounts are those of the documented examples: the account behind the
\* service key is active and holds 1000 USDT.
SpecCreate == InitScenario /\ [][NextCreate]_vars

\* C17: a Loan record is created exactly in the steps in which a contract
\* loan mutation succeeds: each successful requestLoan records a Loan, and
\* no Loan is recorded without one.
C17_LoanRecordsMatchContractLoans ==
    [][ (accounts'[Signer].bobDebt > accounts[Signer].bobDebt)
           <=> (DOMAIN loans' # DOMAIN loans) ]_vars

MaxRates == 2

\* JSON values as JavaScript sees them: a number (in ten-thousandths), a
\* string, or undefined for an absent property.
JsNumber(n) == [ t |-> "number", n |-> n, s |-> "" ]
JsString(str) == [ t |-> "string", n |-> 0, s |-> str ]
JsUndefined == [ t |-> "undefined", n |-> 0, s |-> "" ]

\* No value at all: axios.get rejected (timeout of 10000 ms, network error,
\* HTTP error status).
JsTimeout == [ t |-> "timeout", n |-> 0, s |-> "" ]

\* The result of a numeric conversion: a number or NaN.
Num(n) == [ nan |-> FALSE, n |-> n ]
NaN == [ nan |-> TRUE, n |-> 0 ]

JsStrings == {"0.02", "0", "-1", "abc", "0x1A", ""}

\* Number(str): the whole string must be a numeric literal; hexadecimal
\* literals are numeric literals and the empty string is 0.
StringToNumber(str) ==
    CASE str = "0.02" -> Num(200)
      [] str = "0"    -> Num(0)
      [] str = "-1"   -> Num(-10000)
      [] str = "0x1A" -> Num(260000)
      [] str = ""     -> Num(0)
      [] OTHER        -> NaN

\* parseFloat(str): the longest decimal prefix; "0x1A" stops after its "0" and
\* the empty string has no prefix.
StringToFloat(str) ==
    CASE str = "0.02" -> Num(200)
      [] str = "0"    -> Num(0)
      [] str = "-1"   -> Num(-10000)
      [] str = "0x1A" -> Num(0)
      [] OTHER        -> NaN

\* !v
Falsy(v) ==
    \/ v.t = "undefined"
    \/ v.t = "number" /\ v.n = 0
    \/ v.t = "string" /\ v.s = ""

\* The coercion of isNaN(v) and of v <= 0.
ToNumber(v) ==
    CASE v.t = "number" -> Num(v.n)
      [] v.t = "string" -> StringToNumber(v.s)
      [] OTHER          -> NaN

\* parseFloat(v)
parseFloat(v) ==
    CASE v.t = "number" -> Num(v.n)
      [] v.t = "string" -> StringToFloat(v.s)
      [] OTHER          -> NaN

\* The cast of the schema's `rate: { type: Number, required: true }`: strings
\* go through Number(), and NaN, '' and undefined fail validation.
CastRate(v) ==
    IF v.t = "string" /\ v.s = "" THEN NaN ELSE ToNumber(v)

\* response.data.rates.BOB of the external API while it is down (the request
\* fails, or the payload carries no usable rate) and while it is up.
ApiResponses(source) ==
    IF source = "down"
    THEN { JsTimeout, JsUndefined, JsNumber(0), JsString("abc") }
    ELSE { JsNumber(69000), JsNumber(-69000), JsString("0") }

ApiRates == ApiResponses("down") \cup ApiResponses("up")

\* body.rate and the pair (body.fromCurrency, body.toCurrency; the defaults
\* are USDT and BOB) of a manual request.
ManualRates == { JsUndefined, JsNumber(0), JsNumber(-10000), JsNumber(200) }
                  \cup { JsString(str) : str \in JsStrings }
ManualPairs == { <<"USDT", "BOB">>, <<"USDT", "USD">> }

\* The last tick of the clock the model follows.
MaxClock == 3

\* Time passes.
Tick ==
    /\ feed.clock < MaxClock
    /\ feed' = [feed EXCEPT !.clock = @ + 1]
    /\ UNCHANGED <<accounts, usdt, rates, wreq, wresp>>
    /\ UNCHANGED loanVars

\* The external API stops answering with a rate, and starts again.
SourceFails ==
    /\ feed.source = "up"
    /\ feed' = [feed EXCEPT !.source = "down"]
    /\ UNCHANGED <<accounts, usdt, rates, wreq, wresp>>
    /\ UNCHANGED loanVars

SourceRecovers ==
    /\ feed.source = "down"
    /\ feed' = [feed EXCEPT !.source = "up"]
    /\ UNCHANGED <<accounts, usdt, rates, wreq, wresp>>
    /\ UNCHANGED loanVars

\* A save that also retires the records the pair already has.
SaveRateDeactivatingPrior(from, to, n, source) ==
    rates' = Append([i \in DOMAIN rates |->
                       IF rates[i].fromCurrency = from /\ rates[i].toCurrency = to
                       THEN [rates[i] EXCEPT !.isActive = FALSE] ELSE rates[i]],
                    [ fromCurrency |-> from, toCurrency |-> to,
                      rate |-> n, source |-> source, isActive |-> TRUE,
                      createdAt |-> feed.clock ])

\* new ExchangeRate({...}).save(): one document is inserted; isActive takes
\* its default and createdAt is Date.now() at construction.
SaveRate(from, to, n, source) ==
    rates' = Append(rates, [ fromCurrency |-> from, toCurrency |-> to,
                             rate |-> n, source |-> source, isActive |-> TRUE,
                             createdAt |-> feed.clock ])

\* if (!response.data || !response.data.rates || !response.data.rates.BOB)
\* (an absent data or rates object leaves rates.BOB undefined as well).
RejectedByFetch(v) == Falsy(v)

\* fetchUSDToBOBRate throws: the request failed or the response was refused.
FetchThrows(v) == v.t = "timeout" \/ RejectedByFetch(v)

\* An update that stores whatever the request did not lose.
StoresUnlessTimeout(v) == v.t # "timeout"

\* ExchangeRateService.updateExchangeRate(): TRUE when a record was stored.
Stores(v) == ~ FetchThrows(v) /\ ~ CastRate(v).nan

updateExchangeRate(v) ==
    /\ Len(rates) < MaxRates
    /\ IF Stores(v) THEN SaveRate("USDT", "BOB", CastRate(v).n, "api")
       ELSE UNCHANGED rates

\* POST /api/exchange/rates/update (the caller's identity plays no part).
RatesUpdate(v) ==
    /\ updateExchangeRate(v)
    /\ wresp' = WalletResp("rates/update", "none", IF Stores(v) THEN 200 ELSE 500,
                           IF Stores(v) THEN "none" ELSE "UpdateFailed")
    /\ UNCHANGED <<accounts, usdt, wreq, feed>>
    /\ UNCHANGED loanVars

\* A schedule that an update's error brings down.
CronAfterUncaughtError(stored) == IF stored THEN "running" ELSE "stopped"

\* The cron callback wraps the update in try/catch: an error is logged and
\* the schedule goes on.
CronAfterTick(stored) == "running"

\* The hourly cron job.
ScheduledUpdate(v) ==
    /\ feed.cron = "running"
    /\ updateExchangeRate(v)
    /\ feed' = [feed EXCEPT !.cron = CronAfterTick(Stores(v)),
                            !.lastFailure = IF Stores(v) THEN @ ELSE feed.clock]
    /\ UNCHANGED <<accounts, usdt, wreq, wresp>>
    /\ UNCHANGED loanVars

\* A start-up check that fetches whatever the collection holds.
StartupFetchesAlways(latest) == TRUE

\* if (!latestRate)
StartupFetches(latest) == latest = NoRate

\* The setTimeout callback that runs once, 5 seconds after start-up: the
\* latest rate of the default pair is looked up ...
InitialCheck ==
    /\ feed.startup = "pending"
    /\ feed' = [feed EXCEPT !.startup =
                   IF StartupFetches(getLatestRate("USDT", "BOB"))
                   THEN "fetching" ELSE "done"]
    /\ UNCHANGED <<accounts, usdt, rates, wreq, wresp>>
    /\ UNCHANGED loanVars

\* ... and, when there was none, one update is made; an error is logged.
InitialFetch(v) ==
    /\ feed.startup = "fetching"
    /\ feed' = [feed EXCEPT !.startup = "done"]
    /\ updateExchangeRate(v)
    /\ UNCHANGED <<accounts, usdt, wreq, wresp>>
    /\ UNCHANGED loanVars

\* if (!rate || isNaN(rate) || rate <= 0)
InvalidManualRate(v) ==
    Falsy(v) \/ ToNumber(v).nan \/ ToNumber(v).n <= 0

\* POST /api/exchange/rates/manual (the caller's email goes into the
\* document's metadata, which the model leaves out).
RatesManual(v, pair) ==
    /\ Len(rates) < MaxRates
    /\ IF InvalidManualRate(v)
         THEN /\ wresp' = WalletResp("rates/manual", "none", 400, "InvalidRate")
              /\ UNCHANGED rates
       ELSE IF parseFloat(v).nan
         THEN /\ wresp' = WalletResp("rates/manual", "none", 500, "SetFailed")
              /\ UNCHANGED rates
       ELSE /\ SaveRate(pair[1], pair[2], parseFloat(v).n, "manual")
            /\ wresp' = WalletResp("rates/manual", "none", 200, "none")
    /\ UNCHANGED <<accounts, usdt, wreq, feed>>
    /\ UNCHANGED loanVars

\* A server that has just started on an empty ExchangeRate collection.
InitRates ==
    /\ loans = [l \in StoredLoans |-> NewLoan("u1")]
    /\ lreq = [s \in Slots |-> IdleReq]
    /\ lresp = NoResp
    /\ accounts = [a \in Addresses |->
                     [usdtBalance |-> 0, bobDebt |-> 0, isActive |-> FALSE]]
    /\ usdt = [a \in Addresses |-> 0]
    /\ rates = << >>
    /\ wreq = [s \in Slots |-> IdleWalletReq]
    /\ wresp = NoWalletResp
    /\ feed \in {BootFeed(src) : src \in Sources}

NextRates ==
    \/ \E v \in ApiResponses(feed.source) : RatesUpdate(v)
    \/ \E v \in ApiResponses(feed.source) : ScheduledUpdate(v)
    \/ InitialCheck
    \/ \E v \in ApiResponses(feed.source) : InitialFetch(v)
    \/ \E v \in ManualRates, pair \in ManualPairs : RatesManual(v, pair)
    \/ Tick
    \/ SourceFails
    \/ SourceRecovers

SpecRates == InitRates /\ [][NextRates]_vars

\* The timers alone (no request reaches the exchange routes), with the
\* schedule firing every hour for as long as it is running.
NextCron ==
    \/ \E v \in ApiResponses(feed.source) : ScheduledUpdate(v)
    \/ InitialCheck
    \/ \E v \in ApiResponses(feed.source) : InitialFetch(v)
    \/ Tick
    \/ SourceFails
    \/ SourceRecovers

SpecCron ==
    /\ InitRates
    /\ [][NextCron]_vars
    /\ WF_vars(\E v \in ApiResponses(feed.source) : ScheduledUpdate(v))

\* C20: every ExchangeRate record in the store has rate > 0.
C20_StoredRatesPositive ==
    \A i \in DOMAIN rates : rates[i].rate > 0

\* The refresh could not obtain a rate: the request failed, the payload has
\* no rates.BOB, or rates.BOB is not numeric.
SourceFailure(v) ==
    \/ v.t = "timeout"
    \/ v.t = "undefined"
    \/ v.t = "string" /\ StringToNumber(v.s).nan

\* C21: a refresh that could not obtain a rate stores nothing: the records
\* are exactly those held before the call (no step that changes them is such
\* a refresh), so the latest rate is the same record; and the refresh route
\* answers 500.
C21_FailedRefreshStoresNothing ==
    [][ /\ rates' # rates
           => \A v \in ApiRates :
                 SourceFailure(v)
                    => ~ (ScheduledUpdate(v) \/ InitialFetch(v) \/ RatesUpdate(v))
        /\ (wresp' # wresp /\ wresp'.op = "rates/update")
           => \A v \in ApiRates :
                 (SourceFailure(v) /\ RatesUpdate(v))
                    => (wresp'.code = 500 /\ wresp'.error = "UpdateFailed") ]_vars

\* A refresh has failed while the store holds a record.
C21_Witness ==
    /\ wresp.op = "rates/update" /\ wresp.error = "UpdateFailed"
    /\ Len(rates) > 0

\* C22: after a record is stored for a pair, the latest rate of that pair
\* is that record and no other: it is the one record findOne can return.
C22_LatestIsNewestStore ==
    [][ Len(rates') = Len(rates) + 1
           => LET new == rates'[Len(rates')]
              IN  LatestIn(rates', new.fromCurrency, new.toCurrency)
                     = {Len(rates')}
      ]_vars

\* C23: every step of the rate feed leaves the ExchangeRate collection as it
\* was or appends one record to it; the records already stored keep every
\* field (rate, pair, source, isActive and createdAt) and their place.
C23_AppendOnly ==
    [][ \/ rates' = rates
        \/ /\ Len(rates') = Len(rates) + 1
           /\ \A i \in DOMAIN rates : rates'[i] = rates[i] ]_vars

\* A manual rate has been stored for a pair that already had a record, which
\* is still there and still active.
C23_Witness ==
    /\ Len(rates) = 2
    /\ rates[2].source = "manual"
    /\ rates[1].fromCurrency = rates[2].fromCurrency
    /\ rates[1].toCurrency = rates[2].toCurrency
    /\ rates[1].isActive

\* C25: the start-up check is made once.  The check itself stores nothing;
\* it is followed by an update only when the default pair had no rate; that
\* update is made once, whether it stores a rate or fails; and nothing makes
\* the check pending again.
C25_OneInitialCheck ==
    [][ /\ InitialCheck
           => /\ rates' = rates
              /\ (getLatestRate("USDT", "BOB") # NoRate) => feed'.startup = "done"
              /\ (getLatestRate("USDT", "BOB") = NoRate) => feed'.startup = "fetching"
        /\ (\E v \in ApiRates : InitialFetch(v)) => feed'.startup = "done"
        /\ feed.startup = "fetching" => feed'.startup \in {"fetching", "done"}
        /\ feed.startup = "done" => feed'.startup = "done" ]_vars

\* The check has been made at a time when the only record, for the default
\* pair, was already stored.
C25_Witness ==
    /\ feed.startup = "done"
    /\ Len(rates) = 1
    /\ rates[1].createdAt < feed.clock
    /\ feed.lastFailure = 0

\* C24: a scheduled update that fails leaves the schedule running, and once
\* the external API answers again a new rate is stored (unless the API goes
\* down again first).
C24_ScheduleSurvivesFailure ==
    /\ [](feed.cron = "running")
    /\ \A n \in 0 .. (MaxRates - 1) :
          (feed.source = "up" /\ Len(rates) = n)
             ~> (Len(rates) > n \/ feed.source = "down")

\* A scheduled update has failed and a rate fetched from the API has been
\* stored at a later time.
C24_Witness ==
    /\ feed.lastFailure > 0
    /\ \E i \in DOMAIN rates :
          rates[i].source = "api" /\ rates[i].createdAt > feed.lastFailure

(***************************************************************************)
(* Loan admission and the stored rate (specification SpecAdmission): the   *)
(* loan routes and the wallet's loan route, on a server whose ExchangeRate *)
(* collection starts empty and whose rates grow old as time passes.        *)
(***************************************************************************)
\* GET /api/loans/quote: amount is the collateral offered (query string).
LoanQuote(user, amount, aUsdtBalance, exchangeRate) ==
    /\ exchangeRate \in FindLatest("USDT", "BOB")
    /\ lresp' = Resp("quote", "none", user, "none", "none",
                     IF amount <= 0 THEN 400
                     ELSE IF aUsdtBalance < amount THEN 400
                     ELSE IF exchangeRate = NoRate THEN 503
                     ELSE 200)
    /\ UNCHANGED <<loans, lreq>>
    /\ UNCHANGED walletVars

\* The oldest a rate may be, in ticks of the clock, to admit a loan on it.
MaxRateAge == 1

InitAdmission ==
    /\ loans = [l \in StoredLoans |-> NewLoan("u1")]
    /\ lreq = [s \in Slots |-> IdleReq]
    /\ lresp = NoResp
    /\ accounts = [a \in Addresses |->
                     IF a = Signer
                     THEN [usdtBalance |-> 1000, bobDebt |-> 0, isActive |-> TRUE]
                     ELSE [usdtBalance |-> 0, bobDebt |-> 0, isActive |-> FALSE]]
    /\ usdt = [a \in Addresses |-> 0]
    /\ rates = << >>
    /\ wreq = [s \in Slots |-> IdleWalletReq]
    /\ wresp = NoWalletResp
    /\ feed = [StartedFeed EXCEPT !.clock = 1]

AdmissionCollateral == {0, 40000}
AdmissionLoanBOB    == {20000}
AdmissionBalances   == {40000}
AdmissionManual     == {JsNumber(200)}
AdmissionPairs      == {<<"USDT", "BOB">>}

NextAdmission ==
    \/ \E s \in Slots, u \in Users, c \in AdmissionCollateral,
          a \in AdmissionLoanBOB, bal \in AdmissionBalances :
          \E r \in FindLatest("USDT", "BOB") : CreateLoan(s, u, c, a, TRUE, bal, r)
    \/ \E s \in Slots, g \in GeneratedIds : CreateLoanSave(s, g)
    \/ \E u \in Users, c \in AdmissionCollateral, bal \in AdmissionBalances :
          \E r \in FindLatest("USDT", "BOB") : LoanQuote(u, c, bal, r)
    \/ \E s \in Slots, u \in Users, a \in CreateWalletAmounts,
          r \in CreateWalletRates : LoanRequest(s, u, a, r)
    \/ \E s \in Slots : LoanMutate(s, FALSE)
    \/ \E s \in Slots : RereadAndRespond(s)
    \/ \E v \in AdmissionManual, pair \in AdmissionPairs : RatesManual(v, pair)
    \/ Tick

SpecAdmission == InitAdmission /\ [][NextAdmission]_vars

\* While the default pair has no active rate, the loan routes answer an
\* otherwise acceptable quote or request with 503, construct no Loan and
\* store no rate.
LoanRoutesFailFastWithoutRate ==
    [][ MatchingRates("USDT", "BOB") = {}
           => /\ \A s \in Slots, u \in Users, c \in AdmissionCollateral,
                    a \in AdmissionLoanBOB, bal \in AdmissionBalances :
                    (c > 0 /\ bal >= c /\ CreateLoan(s, u, c, a, TRUE, bal, NoRate))
                       => /\ lresp'.code = 503
                          /\ UNCHANGED <<loans, lreq, accounts, rates, feed>>
              /\ \A u \in Users, c \in AdmissionCollateral, bal \in AdmissionBalances :
                    (c > 0 /\ bal >= c /\ LoanQuote(u, c, bal, NoRate))
                       => /\ lresp'.code = 503
                          /\ UNCHANGED <<loans, lreq, accounts, rates, feed>>
      ]_vars

\* C26: while the default pair has no active rate, no loan request is
\* admitted: no Loan is constructed or stored, no request goes on to the
\* contract and the contract's accounts stay as they are.
C26_NoAdmissionWithoutRate ==
    [][ MatchingRates("USDT", "BOB") = {}
           => /\ loans' = loans
              /\ accounts' = accounts
              /\ \A s \in Slots :
                    /\ lreq'[s].pc = "save" => lreq[s].pc = "save"
                    /\ wreq'[s].pc = "mutate" => wreq[s].pc = "mutate" ]_vars

RoundingBalances        == {267, 401}
RoundingRates           == {100, 150}
RoundingLoanAmounts     == {133, 200, 201, 300}
RoundingWithdrawAmounts == {134, 135}
RoundingCollateral      == {40001}
RoundingLoanBOB         == {45001, 45002}

InitRounding ==
    /\ loans = [l \in StoredLoans |-> NewLoan("u1")]
    /\ lreq = [s \in Slots |-> IdleReq]
    /\ lresp = NoResp
    /\ \E b \in RoundingBalances :
          accounts = [a \in Addresses |->
                        IF a = Signer
                        THEN [usdtBalance |-> b, bobDebt |-> 0, isActive |-> TRUE]
                        ELSE [usdtBalance |-> 0, bobDebt |-> 0, isActive |-> FALSE]]
    /\ usdt = [a \in Addresses |-> 0]
    /\ rates = << [fromCurrency |-> "USDT", toCurrency |-> "BOB", rate |-> 150,
                   source |-> "api", isActive |-> TRUE, createdAt |-> 1] >>
    /\ wreq = [s \in Slots |-> IdleWalletReq]
    /\ wresp = NoWalletResp
    /\ feed = StartedFeed

NextRounding ==
    \/ \E s \in Slots, u \in Users, a \in RoundingWithdrawAmounts,
          r \in RoundingRates : Withdraw(s, u, a, r)
    \/ \E s \in Slots : WithdrawMutate(s, FALSE)
    \/ \E s \in Slots, u \in Users, a \in RoundingLoanAmounts,
          r \in RoundingRates : LoanRequest(s, u, a, r)
    \/ \E s \in Slots : LoanMutate(s, FALSE)
    \/ \E s \in Slots : RereadAndRespond(s)

SpecRounding == InitRounding /\ [][NextRounding]_vars

\* The two routes that admit loans, on the same balances.
NextRoundingLoans ==
    \/ \E s \in Slots, u \in Users, a \in RoundingLoanAmounts,
          r \in RoundingRates : LoanRequest(s, u, a, r)
    \/ \E s \in Slots : LoanMutate(s, FALSE)
    \/ \E s \in Slots : RereadAndRespond(s)
    \/ \E s \in Slots, u \in Users, c \in RoundingCollateral,
          a \in RoundingLoanBOB :
          \E r \in FindLatest("USDT", "BOB") : CreateLoan(s, u, c, a, TRUE, c, r)
    \/ \E s \in Slots, g \in GeneratedIds : CreateLoanSave(s, g)

SpecRoundingLoans == InitRounding /\ [][NextRoundingLoans]_vars

\* m is b x r x ltv (ltv in percent) rounded down to the BOB hundredth.
IsFloorOfProduct(m, b, r, ltv) ==
    /\ m * RateScale <= b * r * ltv
    /\ b * r * ltv < (m + 1) * RateScale

\* q is a / (r x ltv) rounded up to the unit of the collateral.
IsCeilingOfQuotient(q, a, r, ltv) ==
    /\ q * r * ltv >= a * RateScale
    /\ (q - 1) * r * ltv < a * RateScale

\* The wallet's loan route admits a request against the floor of the product
\* and never a total debt above the product itself.
WalletMaxBorrowableIsFloor ==
    [][ \A s \in Slots :
           (wreq[s].pc = "idle" /\ wreq'[s].pc = "mutate" /\ wreq'[s].op = "loan")
              => LET B == wreq'[s].balance
                     R == wreq'[s].rate
                 IN  /\ IsFloorOfProduct(calculateMaxBorrowable(B, R), B, R,
                                         LtvPercent)
                     /\ (wreq'[s].debt + wreq'[s].amount) * RateScale
                           <= B * R * LtvPercent ]_vars

\* C28: the maximum a loan is admitted against, in the wallet's loan route
\* and in the loan routes, is balance x rate x ltv rounded down to the BOB
\* hundredth, and no admitted amount is above balance x rate x ltv.
C28_MaxBorrowableIsFloor ==
    [][ /\ \A s \in Slots :
              (wreq[s].pc = "idle" /\ wreq'[s].pc = "mutate"
                 /\ wreq'[s].op = "loan")
                 => LET B == wreq'[s].balance
                        R == wreq'[s].rate
                    IN  /\ IsFloorOfProduct(calculateMaxBorrowable(B, R), B, R,
                                            LtvPercent)
                        /\ (wreq'[s].debt + wreq'[s].amount) * RateScale
                              <= B * R * LtvPercent
        /\ \A s \in Slots :
              (lreq[s].pc = "idle" /\ lreq'[s].pc = "save"
                 /\ lreq'[s].op = "create")
                 => \A u \in Users, c \in RoundingCollateral,
                       a \in RoundingLoanBOB :
                       CreateLoan(s, u, c, a, TRUE, c, getLatestRate("USDT", "BOB"))
                          => /\ a * RateScale <= c * LatestRate * DefaultLtvPercent
                             /\ \E m \in 0..a :
                                   /\ maxLoanBOB(c, LatestRate) = m * RateScale
                                   /\ IsFloorOfProduct(m, c, LatestRate,
                                                       DefaultLtvPercent)
      ]_vars

Rat(num, den) == [ num |-> num, den |-> den ]
RatEq(a, b) == a.num * b.den = b.num * a.den

\* Infinity and -Infinity (sign 1 and -1).
JsInfinity(sign) == [ t |-> "infinity", n |-> sign, s |-> "" ]

RECURSIVE SumOf(_)
\* values.reduce((a, b) => a + b, 0)
SumOf(values) ==
    IF values = << >> THEN 0 ELSE Head(values) + SumOf(Tail(values))

\* values.map(f)
MapSeq(values, f(_)) == [i \in DOMAIN values |-> f(values[i])]

\* Math.max(...values) || 0 and Math.min(...values) || 0: of no arguments
\* Math.max is -Infinity and Math.min is Infinity, and neither is falsy.
MathMaxOr0(values) ==
    IF values = << >> THEN JsInfinity(-1)
    ELSE JsNumber(CHOOSE x \in {values[i] : i \in DOMAIN values} :
                     \A i \in DOMAIN values : values[i] <= x)

MathMinOr0(values) ==
    IF values = << >> THEN JsInfinity(1)
    ELSE JsNumber(CHOOSE x \in {values[i] : i \in DOMAIN values} :
                     \A i \in DOMAIN values : values[i] >= x)

\* The deviation with the divisor of a sample, length - 1.
calculateSampleDeviation(values) ==
    LET n == Len(values)
        S == SumOf(values)
        squaredDiff(value) == (n * value - S) * (n * value - S)
    IN  [ sqrtOf |-> Rat(SumOf(MapSeq(values, squaredDiff)), n * n * (n - 1)) ]

\* calculateVolatility(values): mean = sum / n, squaredDiffs = (value -
\* mean)^2 = (n x value - sum)^2 / n^2, their average over n, and its root.
calculateVolatility(values) ==
    LET n == Len(values)
        S == SumOf(values)
        squaredDiff(value) == (n * value - S) * (n * value - S)
    IN  IF n < 2 THEN [ sqrtOf |-> Rat(0, 1) ]
        ELSE [ sqrtOf |-> Rat(SumOf(MapSeq(values, squaredDiff)), n * n * n) ]

\* period (in ticks of the clock; the default is the second) and limit of
\* the query string.
Periods == {1, 2}
Limits  == {1, 100}

\* startDate = now - period
startDate(period) == feed.clock - period

\* The records matched by find({fromCurrency, toCurrency, isActive: true,
\* createdAt: {$gte: startDate}}).
Qualifying(from, to, period) ==
    { i \in DOMAIN rates :
         /\ rates[i].fromCurrency = from /\ rates[i].toCurrency = to
         /\ rates[i].isActive
         /\ rates[i].createdAt >= startDate(period) }

\* .sort({createdAt: -1}): the orders the sort may give (records of one
\* createdAt come in either order).
SortedNewestFirst(found) ==
    { order \in [1..Cardinality(found) -> found] :
         /\ \A i, j \in DOMAIN order : i # j => order[i] # order[j]
         /\ \A i, j \in DOMAIN order :
               i < j => rates[order[i]].createdAt >= rates[order[j]].createdAt }

\* .limit(n)
Take(order, n) ==
    IF Len(order) <= n THEN order ELSE SubSeq(order, 1, n)

\* rates.reverse()
Reverse(seq) == [i \in DOMAIN seq |-> seq[Len(seq) + 1 - i]]

\* The analytics object, from rateValues = rates.map(r => r.rate).
analytics(rateValues) ==
    [ count      |-> Len(rateValues),
      latest     |-> IF rateValues = << >> THEN 0 ELSE rateValues[1],
      highest    |-> MathMaxOr0(rateValues),
      lowest     |-> MathMinOr0(rateValues),
      average    |-> IF Len(rateValues) > 0
                     THEN Rat(SumOf(rateValues), Len(rateValues)) ELSE Rat(0, 1),
      volatility |-> IF Len(rateValues) > 1 THEN calculateVolatility(rateValues)
                     ELSE [ sqrtOf |-> Rat(0, 1) ],
      rates      |-> Reverse(rateValues) ]

\* GET /rates/history?from&to&period&limit
RatesHistory(from, to, period, limit) ==
    /\ \E order \in SortedNewestFirst(Qualifying(from, to, period)) :
          LET found == Take(order, limit)
              rateValues == [i \in DOMAIN found |-> rates[found[i]].rate]
          IN  wresp' = [ WalletResp("rates/history", "none", 200, "none")
                           EXCEPT !.details = analytics(rateValues) ]
    /\ UNCHANGED <<accounts, usdt, rates, wreq, feed>>
    /\ UNCHANGED loanVars

HistoryManualRates == { JsNumber(100), JsNumber(200), JsNumber(400) }

InitHistory ==
    /\ loans = [l \in StoredLoans |-> NewLoan("u1")]
    /\ lreq = [s \in Slots |-> IdleReq]
    /\ lresp = NoResp
    /\ accounts = [a \in Addresses |->
                     [usdtBalance |-> 0, bobDebt |-> 0, isActive |-> FALSE]]
    /\ usdt = [a \in Addresses |-> 0]
    /\ rates = << >>
    /\ wreq = [s \in Slots |-> IdleWalletReq]
    /\ wresp = NoWalletResp
    /\ feed = [StartedFeed EXCEPT !.clock = 1]

NextHistory ==
    \/ \E v \in HistoryManualRates, pair \in ManualPairs : RatesManual(v, pair)
    \/ \E pair \in ManualPairs, period \in Periods, limit \in Limits :
          RatesHistory(pair[1], pair[2], period, limit)
    \/ Tick

SpecHistory == InitHistory /\ [][NextHistory]_vars

\* The population variance of values in its other form, mean of squares
\* minus square of the mean: (n x sum of squares - sum^2) / n^2.
PopulationVariance(values) ==
    LET n == Len(values)
        square(value) == value * value
    IN  Rat(n * SumOf(MapSeq(values, square)) - SumOf(values) * SumOf(values),
            n * n)

\* C31: the volatility of a history response is exactly 0 when the history
\* has no or one data point, and otherwise the population standard deviation
\* of the rates of the history (the root of their population variance).
C31_Volatility ==
    wresp.op = "rates/history"
       => LET a == wresp.details
          IN  /\ a.count <= 1 => a.volatility.sqrtOf.num = 0
              /\ a.count >= 2
                    => RatEq(a.volatility.sqrtOf, PopulationVariance(a.rates))

\* A history of the two rates 0.01 and 0.02 was answered with the volatility
\* 0.005 (of ten-thousandths: 100, 200 and the root of 2500).
C31_Witness ==
    /\ wresp.op = "rates/history"
    /\ wresp.details.rates = <<100, 200>>
    /\ RatEq(wresp.details.volatility.sqrtOf, Rat(2500, 1))

\* C40: the figures of a history response are those of all the active
\* records of the pair created since the start of the period: the count is
\* their number, highest and lowest are the greatest and the least of their
\* rates, and for an empty history count, latest, highest, lowest and
\* average are 0.
C40_AnalyticsOverWholePeriod ==
    [][ \A pair \in ManualPairs, period \in Periods, limit \in Limits :
           RatesHistory(pair[1], pair[2], period, limit)
              => LET a == wresp'.details
                     all == Qualifying(pair[1], pair[2], period)
                 IN  /\ a.count = Cardinality(all)
                     /\ all = {}
                           => /\ a.latest = 0
                              /\ a.highest = JsNumber(0)
                              /\ a.lowest = JsNumber(0)
                              /\ a.average.num = 0
                     /\ all # {}
                           => /\ \A i \in all : a.highest.n >= rates[i].rate
                              /\ \A i \in all : a.lowest.n <= rates[i].rate ]_vars

\* The count of a history response is the number of qualifying records
\* whenever the limit does not cut the history short.
HistoryCountWithinLimit ==
    [][ \A pair \in ManualPairs, period \in Periods, limit \in Limits :
           (RatesHistory(pair[1], pair[2], period, limit)
              /\ Cardinality(Qualifying(pair[1], pair[2], period)) <= limit)
              => wresp'.details.count
                    = Cardinality(Qualifying(pair[1], pair[2], period)) ]_vars

\* No history response counts fewer records than qualify.
HistoryNeverCutShort ==
    [][ \A pair \in ManualPairs, period \in Periods, limit \in Limits :
           RatesHistory(pair[1], pair[2], period, limit)
              => wresp'.details.count
                    >= Cardinality(Qualifying(pair[1], pair[2], period)) ]_vars

(***************************************************************************)
(* The outcomes of a contract transaction the handlers can meet            *)
(* (specification SpecOutcome): besides a transaction that is mined or     *)
(* reverts, `await tx.wait()` can throw after the transaction was          *)
(* broadcast and mined, it can stay pending for ever, and the account read *)
(* that follows a mined transaction can throw.                             *)
(***************************************************************************)
\* Whether the contract accepts the transaction a request is about to send.
MutationOk(req) ==
    CASE req.op = "deposit"  -> ContractDepositOk(Signer, req.amount)
      [] req.op = "withdraw" -> ContractWithdrawOk(Signer, req.amount, req.rate)
      [] req.op = "loan"     -> ContractLoanOk(Signer, req.amount, req.rate)
      [] OTHER               -> FALSE

\* The contract's accounts and the token balances once it is mined.
AccountsAfterMutation(req) ==
    CASE req.op = "deposit" ->
            [accounts EXCEPT ![Signer].usdtBalance = @ + req.amount,
                             ![Signer].isActive = TRUE]
      [] req.op = "withdraw" ->
            [accounts EXCEPT ![Signer].usdtBalance = @ - req.amount]
      [] req.op = "loan" ->
            [accounts EXCEPT ![Signer].bobDebt = @ + req.amount]
      [] OTHER -> accounts

UsdtAfterMutation(req) ==
    CASE req.op = "deposit"  -> [usdt EXCEPT ![Signer] = @ - req.amount]
      [] req.op = "withdraw" -> [usdt EXCEPT ![Signer] = @ + req.amount]
      [] OTHER               -> usdt

\* A handler that sends the transaction again after an error.
RetryAfterMutationError(req) == req

\* catch (error) { ... res.status(500) }: the request ends.
AfterMutationError(req) == IdleWalletReq

\* The transaction is mined, and `await tx.wait()` throws (the node stops
\* answering while the receipt is polled): the catch block answers 500.
MutationReceiptLost(s) ==
    /\ wreq[s].pc = "mutate" /\ MutationOk(wreq[s])
    /\ accounts' = AccountsAfterMutation(wreq[s])
    /\ usdt' = UsdtAfterMutation(wreq[s])
    /\ wresp' = WalletResp(wreq[s].op, wreq[s].user, 500, "ContractCallFailed")
    /\ wreq' = [wreq EXCEPT ![s] = AfterMutationError(wreq[s])]
    /\ UNCHANGED <<rates, feed>>
    /\ UNCHANGED loanVars

\* The transaction is broadcast and never mined: `await tx.wait()`, called
\* without a timeout, never settles.
TransactionNeverMined(s) ==
    /\ wreq[s].pc = "mutate"
    /\ wreq' = [wreq EXCEPT ![s].pc = "waiting"]
    /\ UNCHANGED <<accounts, usdt, rates, wresp, feed>>
    /\ UNCHANGED loanVars

\* The getToritoUserAccount that follows the mined transaction throws.
RereadFails(s) ==
    /\ wreq[s].pc = "reread"
    /\ wresp' = WalletResp(wreq[s].op, wreq[s].user, 500, "ContractCallFailed")
    /\ wreq' = [wreq EXCEPT ![s] = IdleWalletReq]
    /\ UNCHANGED <<accounts, usdt, rates, feed>>
    /\ UNCHANGED loanVars

OutcomeAmounts == {400}
OutcomeRates   == {200}

InitOutcome ==
    /\ loans = [l \in StoredLoans |-> NewLoan("u1")]
    /\ lreq = [s \in Slots |-> IdleReq]
    /\ lresp = NoResp
    /\ accounts = [a \in Addresses |->
                     [usdtBalance |-> 1000, bobDebt |-> 0, isActive |-> TRUE]]
    /\ usdt = [a \in Addresses |-> 400]
    /\ rates = << [fromCurrency |-> "USDT", toCurrency |-> "BOB", rate |-> 200,
                   source |-> "api", isActive |-> TRUE, createdAt |-> 1] >>
    /\ wreq = [s \in Slots |-> IdleWalletReq]
    /\ wresp = NoWalletResp
    /\ feed = StartedFeed

\* What a handler that has passed its checks does next.
HandlerStep(s) ==
    \/ \E f \in BOOLEAN : DepositMutate(s, f)
    \/ \E f \in BOOLEAN : WithdrawMutate(s, f)
    \/ \E f \in BOOLEAN : LoanMutate(s, f)
    \/ MutationReceiptLost(s)
    \/ TransactionNeverMined(s)
    \/ RereadAndRespond(s)
    \/ RereadFails(s)

NextOutcome ==
    \E s \in Slots :
       \/ \E u \in Users, a \in OutcomeAmounts : Deposit(s, u, a, "none")
       \/ \E u \in Users, a \in OutcomeAmounts, r \in OutcomeRates :
             Withdraw(s, u, a, r)
       \/ \E u \in Users, a \in OutcomeAmounts, r \in OutcomeRates :
             LoanRequest(s, u, a, r)
       \/ HandlerStep(s)

SpecOutcome == InitOutcome /\ [][NextOutcome]_vars

\* The same, with every handler running on as long as it has a step to take.
SpecOutcomeFair ==
    InitOutcome /\ [][NextOutcome]_vars /\ \A s \in Slots : WF_vars(HandlerStep(s))

\* C32: a request sends its contract transaction at most once: the contract
\* changes only in a step of a request that is at its transaction and
\* leaves it with that step, whether the step ends in success or in an
\* error, and a request comes to its transaction only from its checks.
C32_MutationSubmittedOnce ==
    [][ /\ (accounts' # accounts \/ usdt' # usdt)
           => \E s \in Slots :
                 /\ wreq[s].pc = "mutate" /\ wreq'[s].pc # "mutate"
                 /\ accounts' = AccountsAfterMutation(wreq[s])
                 /\ usdt' = UsdtAfterMutation(wreq[s])
        /\ \A s \in Slots :
              /\ (wreq'[s].pc = "mutate" /\ wreq[s].pc # "mutate")
                    => wreq[s].pc = "idle"
              /\ (wreq[s].pc = "mutate" /\ wreq'[s] # wreq[s])
                    => wreq'[s].pc \in {"idle", "reread", "waiting"}
      ]_vars

\* A deposit whose transaction was mined has been answered 500, and the
\* balance has grown by the amount once.
C32_Witness ==
    /\ wresp.op = "deposit" /\ wresp.code = 500
    /\ accounts[Signer].usdtBalance = 1400
    /\ \A s \in Slots : wreq[s].pc = "idle"

\* C33: a request whose transaction took effect is not answered as failed,
\* and a request whose transaction did not take effect is not answered as
\* successful.
C33_ReportMatchesEffect ==
    [][ /\ (accounts' # accounts /\ wresp' # wresp) => wresp'.code = 200
        /\ \A s \in Slots :
              /\ (wreq[s].pc = "reread" /\ wreq'[s].pc = "idle")
                    => wresp'.code = 200
              /\ (wreq[s].pc = "mutate" /\ wreq'[s].pc = "idle"
                    /\ accounts' = accounts) => wresp'.code # 200 ]_vars

\* C34: every request that has come to its contract transaction is
\* eventually answered.
C34_EveryRequestAnswered ==
    \A s \in Slots : (wreq[s].pc = "mutate") ~> (wreq[s].pc = "idle")

\* C35: a transaction sent for a request changes no account but that of
\* the request's user, the account its checks read.
C35_OnlyTheUsersAccount ==
    [][ \A s \in Slots :
           (wreq[s].pc = "mutate" /\ wreq'[s].pc # "mutate")
              => \A a \in Addresses :
                    a # WalletAddress[wreq[s].user]
                       => (accounts'[a] = accounts[a] /\ usdt'[a] = usdt[a]) ]_vars

(***************************************************************************)
(* Concurrent status changes of one loan.                                  *)
(***************************************************************************)
\* C36: two status-changing operations on one loan that overlap end as if
\* one had run after the other: a cancel is answered 200 only when the loan
\* it writes to is still pending (a loan whose funding or approval was
\* acknowledged in between stays as it is), and a repayment confirmation is
\* answered 200 only when the loan it writes to is still approved or funded
\* (of two overlapping confirmations the second to write fails).
C36_StatusWritesSerializable ==
    [][ \A s \in Slots :
           (Completes(s) /\ lresp'.code = 200)
              => /\ lreq[s].op = "cancel"
                       => loans[lreq[s].loanId].status = "pending"
                 /\ lreq[s].op = "repayment"
                       => IsRepayable(loans[lreq[s].loanId].status) ]_vars

(***************************************************************************)
(* GET /api/loans/summary/debt and the collateral of a new request         *)
(* (specification SpecSummary): three stored loans, two of u1 and one of   *)
(* u2, in any status.                                                      *)
(***************************************************************************)
SummaryLoans == {"L1", "L2", "L3"}
SummaryOwner == [l \in SummaryLoans |-> IF l = "L3" THEN "u2" ELSE "u1"]
SummaryCollateral == [l \in SummaryLoans |->
                        CASE l = "L1" -> 10000 [] l = "L2" -> 20000 [] OTHER -> 40000]
SummaryAmountBOB == [l \in SummaryLoans |->
                        CASE l = "L1" -> 11000 [] l = "L2" -> 13000 [] OTHER -> 17000]
SummaryBalances == {40000}
SummaryLoanBOB  == {20000, 25000}

RECURSIVE SumOver(_, _)
\* { $sum: '$field' } over a set of documents.
SumOver(ids, field) ==
    IF ids = {} THEN 0
    ELSE LET l == CHOOSE x \in ids : TRUE
         IN  loans[l][field] + SumOver(ids \ {l}, field)

\* A summary that takes every loan that is not cancelled for an active one.
IsNotCancelled(status) == status # "cancelled"

\* ['pending', 'approved', 'funded'].includes(item._id)
IsActiveStatus(status) == status \in {"pending", "approved", "funded"}

\* { $match: { userId } } and the groups counted as active.
ActiveLoansOf(user) ==
    { l \in DOMAIN loans : loans[l].owner = user /\ IsActiveStatus(loans[l].status) }

\* The summary object of the response.
DebtSummaryOf(user, aUsdtBalance) ==
    [ totalActiveLoans      |-> Cardinality(ActiveLoansOf(user)),
      totalDebtBOB          |-> SumOver(ActiveLoansOf(user), "amountBOB"),
      totalCollateralLocked |-> SumOver(ActiveLoansOf(user), "collateral"),
      availableCollateral   |-> aUsdtBalance
                                   - SumOver(ActiveLoansOf(user), "collateral") ]

\* GET /api/loans/summary/debt
DebtSummary(user, aUsdtBalance) ==
    /\ lresp' = [ op |-> "summary", key |-> "none", user |-> user,
                  target |-> "none", from |-> "none", code |-> 200,
                  balance |-> aUsdtBalance,
                  summary |-> DebtSummaryOf(user, aUsdtBalance) ]
    /\ UNCHANGED <<loans, lreq>>
    /\ UNCHANGED walletVars

InitSummary ==
    /\ \E st \in [SummaryLoans -> StatusEnum] :
          loans = [l \in SummaryLoans |->
                     [NewLoan(SummaryOwner[l]) EXCEPT
                        !.status = st[l],
                        !.collateral = SummaryCollateral[l],
                        !.amountBOB = SummaryAmountBOB[l]]]
    /\ lreq = [s \in Slots |-> IdleReq]
    /\ lresp = NoResp
    /\ accounts = [a \in Addresses |->
                     [usdtBalance |-> 0, bobDebt |-> 0, isActive |-> FALSE]]
    /\ usdt = [a \in Addresses |-> 0]
    /\ rates = << [fromCurrency |-> "USDT", toCurrency |-> "BOB", rate |-> 100,
                   source |-> "api", isActive |-> TRUE, createdAt |-> 1] >>
    /\ wreq = [s \in Slots |-> IdleWalletReq]
    /\ wresp = NoWalletResp
    /\ feed = StartedFeed

NextSummary ==
    \/ \E u \in Users, bal \in SummaryBalances : DebtSummary(u, bal)
    \/ \E s \in Slots, u \in Users, c \in AdmissionCollateral,
          a \in SummaryLoanBOB, bal \in SummaryBalances :
          \E r \in FindLatest("USDT", "BOB") : CreateLoan(s, u, c, a, TRUE, bal, r)
    \/ \E s \in Slots, g \in GeneratedIds : CreateLoanSave(s, g)
    \/ \E s \in Slots, u \in Users, l \in SummaryLoans : CancelLoan(s, u, l)
    \/ \E s \in Slots : CancelLoanSave(s)

SpecSummary == InitSummary /\ [][NextSummary]_vars

\* What one loan adds to the locked collateral and to the debt of a user.
LockedBy(l, user, field) ==
    IF loans[l].owner = user /\ loans[l].status \notin TerminalStatuses
    THEN loans[l][field] ELSE 0

\* C39: the debt summary of a user counts the amount and the collateral of
\* a loan exactly when the loan is the user's and its status is not
\* terminal, each such loan once, and the available collateral is the
\* balance less the collateral so locked.
C39_SummaryCountsNonTerminal ==
    lresp.op = "summary"
       => LET u == lresp.user
              locked == LockedBy("L1", u, "collateral") + LockedBy("L2", u, "collateral")
                           + LockedBy("L3", u, "collateral")
              debt   == LockedBy("L1", u, "amountBOB") + LockedBy("L2", u, "amountBOB")
                           + LockedBy("L3", u, "amountBOB")
          IN  /\ lresp.summary.totalCollateralLocked = locked
              /\ lresp.summary.totalDebtBOB = debt
              /\ lresp.summary.availableCollateral = lresp.balance - locked
              /\ lresp.summary.totalActiveLoans
                    = Cardinality({l \in SummaryLoans :
                                     LockedBy(l, u, "collateral") > 0})

\* The summary of u1 with one loan funded and the other repaid, u2's loan
\* pending: u1's funded loan alone is counted.
C39_Witness ==
    /\ lresp.op = "summary" /\ lresp.user = "u1"
    /\ loans["L1"].status = "funded" /\ loans["L2"].status = "repaid"
    /\ loans["L3"].status = "pending"
    /\ lresp.summary.totalCollateralLocked = 10000
    /\ lresp.summary.availableCollateral = 30000

\* C37: a new loan request is admitted only when its collateral fits in the
\* balance less the collateral the user's non-terminal loans already lock,
\* so that the locked collateral never exceeds the balance.
C37_CollateralWithinAvailable ==
    [][ \A s \in Slots :
           (lreq[s].pc = "idle" /\ lreq'[s].pc = "save" /\ lreq'[s].op = "create")
              => \A bal \in SummaryBalances :
                    CreateLoan(s, lreq'[s].user, lreq'[s].upd.collateral,
                               lreq'[s].upd.amountBOB, TRUE, bal,
                               getLatestRate("USDT", "BOB"))
                       => lreq'[s].upd.collateral
                             + SumOver(ActiveLoansOf(lreq'[s].user), "collateral")
                             <= bal ]_vars

\* C38: the loan routes and the wallet's loan route decide alike: a request
\* the loan routes admit on a collateral and the latest rate is one the
\* wallet's checks admit for an account holding that collateral as its
\* balance, without debt, at the same rate.
C38_AdmissionPathsAgree ==
    [][ \A s \in Slots :
           (lreq[s].pc = "idle" /\ lreq'[s].pc = "save" /\ lreq'[s].op = "create")
              => Admissible("loan", lreq'[s].upd.amountBOB, LatestRate,
                            lreq'[s].upd.collateral, 0) ]_vars

====
